---- MODULE Spec2Model ----
(***************************************************************************)
(* Model of the spatial core of the Vastu floor-plan editor:               *)
(*   utils/zoneUtils.ts, utils/vastuUtils.ts, utils/autoLayout.ts,         *)
(*   geometry/wallGraph.ts, utils/adaptTemplate.ts and store/useStore.ts.  *)
(*                                                                         *)
(* Numbers.  The program computes with IEEE doubles in metres.  The model  *)
(* is fixed-point: every length is an integer number of 1/600 m (so that   *)
(* thirds of a whole-metre plot and the 5 mm grid of the templates are     *)
(* exact) and every result of sqrt or of a division is truncated to that   *)
(* grid.  Tolerances of the code become 0.01 m = 6, 0.1 m = 60, 0.5 m =    *)
(* 300, 1 m = 600; the 1e-6 slack of the placer is below the grid.         *)
(***************************************************************************)
EXTENDS Integers, Sequences, FiniteSets, TLC

\* Units per metre.
U == 6 * 100

Min(a, b) == IF a <= b THEN a ELSE b
Max(a, b) == IF a >= b THEN a ELSE b
Abs(a) == IF a < 0 THEN 0 - a ELSE a

RECURSIVE ISqrtBS(_, _, _)
ISqrtBS(n, lo, hi) ==
    IF lo >= hi THEN lo
    ELSE LET mid == (lo + hi + 1) \div 2
         IN  IF mid * mid <= n THEN ISqrtBS(n, mid, hi) ELSE ISqrtBS(n, lo, mid - 1)

\* Math.sqrt, truncated; arguments stay below 46340^2.
ISqrt(n) == ISqrtBS(n, 0, 46340)

\* Math.round of the quotient a / b for a >= 0, b > 0 (half rounds up).
RoundDiv(a, b) == (2 * a + b) \div (2 * b)

(***************************************************************************)
(* 32-bit words as [hi, lo] pairs of 16-bit halves (TLC integers are       *)
(* 32-bit signed, so an unsigned 32-bit value does not fit in one).        *)
(***************************************************************************)
W16 == 256 * 256

RECURSIVE Xor16(_, _)
Xor16(a, b) ==
    IF a = 0 THEN b
    ELSE IF b = 0 THEN a
    ELSE 2 * Xor16(a \div 2, b \div 2) + (((a % 2) + (b % 2)) % 2)

RECURSIVE Or16(_, _)
Or16(a, b) ==
    IF a = 0 THEN b
    ELSE IF b = 0 THEN a
    ELSE 2 * Or16(a \div 2, b \div 2) + (IF a % 2 = 1 \/ b % 2 = 1 THEN 1 ELSE 0)

RECURSIVE Pow2(_)
Pow2(k) == IF k = 0 THEN 1 ELSE 2 * Pow2(k - 1)

\* A non-negative integer below 2^31 as a word (seed |= 0).
ToWord(n) == [hi |-> (n \div W16) % W16, lo |-> n % W16]

WXor(a, b) == [hi |-> Xor16(a.hi, b.hi), lo |-> Xor16(a.lo, b.lo)]
\* x | c for a small constant c < 2^16.
WOrLow(a, c) == [hi |-> a.hi, lo |-> Or16(a.lo, c)]
\* (a + b) | 0 : addition modulo 2^32.
WAdd(a, b) ==
    LET s == a.lo + b.lo
    IN  [hi |-> (a.hi + b.hi + (s \div W16)) % W16, lo |-> s % W16]
\* a >>> k for 0 < k < 16.
WShr(a, k) ==
    [hi |-> a.hi \div Pow2(k),
     lo |-> ((a.hi % Pow2(k)) * Pow2(16 - k)) + (a.lo \div Pow2(k))]
\* Math.imul: the low 32 bits of the product, by bytes.
\* The four low columns p0..p3 of a byte-wise product, carries propagated.
ImulColumns(p0, p1, p2, p3) ==
    LET c1 == p1 + (p0 \div 256)
        c2 == p2 + (c1 \div 256)
        c3 == p3 + (c2 \div 256)
    IN  [hi |-> ((c3 % 256) * 256) + (c2 % 256), lo |-> ((c1 % 256) * 256) + (p0 % 256)]

ImulBytes(a0, a1, a2, a3, b0, b1, b2, b3) ==
    ImulColumns(a0 * b0,
                a0 * b1 + a1 * b0,
                a0 * b2 + a1 * b1 + a2 * b0,
                a0 * b3 + a1 * b2 + a2 * b1 + a3 * b0)

WImul(a, b) ==
    ImulBytes(a.lo % 256, a.lo \div 256, a.hi % 256, a.hi \div 256,
              b.lo % 256, b.lo \div 256, b.hi % 256, b.hi \div 256)

\* 0x6d2b79f5
MulberryInc == [hi |-> 27947, lo |-> 31221]

(***************************************************************************)
(* mulberry32: one call of the closure.  seed is the closure's captured    *)
(* variable; the result is the new captured value and the 32-bit numerator *)
(* of the returned fraction val / 2^32.                                    *)
(***************************************************************************)
\* (t ^ (t >>> 14)) >>> 0
Temper3(t) == WXor(t, WShr(t, 14))

\* t = (t + Math.imul(t ^ (t >>> 7), 61 | t)) ^ t
Temper2(t) == WXor(WAdd(t, WImul(WXor(t, WShr(t, 7)), WOrLow(t, 61))), t)

\* t = Math.imul(seed ^ (seed >>> 15), 1 | seed)
Temper1(s) == WImul(WXor(s, WShr(s, 15)), WOrLow(s, 1))

Drawn(s) == [seed |-> s, val |-> Temper3(Temper2(Temper1(s)))]

mulberry32(seed) == Drawn(WAdd(seed, MulberryInc))

\* The next k results of the closure, starting from the captured value seed.
RECURSIVE Draws(_, _)
Draws(seed, k) ==
    IF k = 0 THEN <<>> ELSE <<mulberry32(seed)>> \o Draws(mulberry32(seed).seed, k - 1)

\* Math.floor(u * n) for a fraction u = v / 2^32 and 0 < n < 2^15.
FloorMul(v, n) == ((v.hi * n) + ((v.lo * n) \div W16)) \div W16

\* The fraction's leading 10 bits, u ~ Frac10(v) / 1024: the resolution the
\* model keeps for the magnitude of a nudge or a resize.
Frac10(v) == v.hi \div 64

(***************************************************************************)
(* utils/zoneUtils.ts                                                      *)
(***************************************************************************)
\* The ids in the order of the array computeZones builds.
ZoneIds == <<"NW", "N", "NE", "W", "C", "E", "SW", "S", "SE">>

ZoneSet == {ZoneIds[i] : i \in 1..9}

\* A grid that takes the third of the width for the height as well.
computeZonesSquare(plot) ==
    LET w == plot.width \div 3
    IN  [i \in 1..9 |->
            [id |-> ZoneIds[i], x |-> ((i - 1) % 3) * w, y |-> ((i - 1) \div 3) * w,
             w |-> w, h |-> w]]

\* A grid that lists its cells column by column.
computeZonesByColumn(plot) ==
    LET w == plot.width \div 3
        h == plot.height \div 3
    IN  [i \in 1..9 |->
            [id |-> ZoneIds[(3 * ((i - 1) % 3)) + ((i - 1) \div 3) + 1],
             x |-> ((i - 1) \div 3) * w, y |-> ((i - 1) % 3) * h, w |-> w, h |-> h]]

\* computeZones(plot): row-major 3x3 grid of W/3 x H/3 cells from the origin.
computeZones(plot) ==
    LET w == plot.width \div 3
        h == plot.height \div 3
    IN  [i \in 1..9 |->
            [id |-> ZoneIds[i], x |-> ((i - 1) % 3) * w, y |-> ((i - 1) \div 3) * h,
             w |-> w, h |-> h]]

\* Array.prototype.findIndex over the set I of the indices (1-based) that pass
\* the test: the least of them, 0 when none passes.
FirstIndex(I) == IF I = {} THEN 0 ELSE CHOOSE i \in I : \A j \in I : i <= j

\* A test that leaves the border of the zone out.
InZoneOpen(z, x, y) == x > z.x /\ x < z.x + z.w /\ y > z.y /\ y < z.y + z.h

InZone(z, x, y) == x >= z.x /\ x <= z.x + z.w /\ y >= z.y /\ y <= z.y + z.h

\* pickZoneForPoint(zones, x, y): the first zone containing the point, else C.
pickZoneForPoint(zones, x, y) ==
    LET i == FirstIndex({k \in 1..Len(zones) : InZone(zones[k], x, y)})
    IN  IF i = 0 THEN "C" ELSE zones[i].id

\* zones.find((z) => z.id === id)
ZoneById(zones, id) == zones[CHOOSE i \in 1..Len(zones) : zones[i].id = id]

(***************************************************************************)
(* vastu_rules.json is not among the sources.  The table below follows the *)
(* specification (kitchen forbidden in NE, three sets per category, a      *)
(* category may have no entry: "study" has none here).                     *)
(***************************************************************************)
VastuRoomRules ==
    [kitchen     |-> [preferred |-> <<"SE">>, allowed |-> <<"NW">>, forbidden |-> <<"NE">>],
     puja        |-> [preferred |-> <<"NE">>, allowed |-> <<"N", "E">>, forbidden |-> <<"SW">>],
     toilet      |-> [preferred |-> <<"NW">>, allowed |-> <<"W">>, forbidden |-> <<"NE">>],
     living_room |-> [preferred |-> <<"N", "E">>, allowed |-> <<"C">>, forbidden |-> <<"SW">>]]

Includes(s, e) == \E i \in 1..Len(s) : s[i] = e

Null == "null"

\* An optional object: None for null, Some(v) for the object v.
None == <<>>

Some(v) == <<v>>

(***************************************************************************)
(* utils/vastuUtils.ts                                                     *)
(***************************************************************************)
\* A scorer that looks at the preferred zones before the forbidden ones.
ScorePreferredFirst(roomRules, roomType, zoneId) ==
    IF roomType \notin DOMAIN roomRules THEN [score |-> 50, violation |-> Null]
    ELSE LET rules == roomRules[roomType]
         IN  IF Includes(rules.preferred, zoneId) THEN [score |-> 100, violation |-> Null]
             ELSE IF Includes(rules.forbidden, zoneId) THEN [score |-> 0, violation |-> "forbidden"]
             ELSE IF Includes(rules.allowed, zoneId) THEN [score |-> 60, violation |-> Null]
             ELSE [score |-> 30, violation |-> Null]

\* Lines 423-445 under the table roomRules (vastuRules.room_rules).
ScoreUnder(roomRules, roomType, zoneId) ==
    IF roomType \notin DOMAIN roomRules THEN [score |-> 50, violation |-> Null]
    ELSE LET rules == roomRules[roomType]
         IN  IF Includes(rules.forbidden, zoneId) THEN [score |-> 0, violation |-> "forbidden"]
             ELSE IF Includes(rules.preferred, zoneId) THEN [score |-> 100, violation |-> Null]
             ELSE IF Includes(rules.allowed, zoneId) THEN [score |-> 60, violation |-> Null]
             ELSE [score |-> 30, violation |-> Null]

calculateRoomVastuScore(roomType, zoneId) == ScoreUnder(VastuRoomRules, roomType, zoneId)

(***************************************************************************)
(* utils/autoLayout.ts: computeLayoutScore                                 *)
(***************************************************************************)
\* The score -Infinity of a rejected layout: below every real score.
NegInfinity == -1

RECURSIVE SumScores(_)
SumScores(rooms) ==
    IF rooms = <<>> THEN 0
    ELSE calculateRoomVastuScore(Head(rooms).type, Head(rooms).zone).score + SumScores(Tail(rooms))

\* dx < 0.1 && dy < 0.1 for dx = max(0, |puja.x - toilet.x| - (widths)/2), doubled
\* to stay in integers.
PujaNearToilet(puja, toilet) ==
    /\ Max(0, 2 * Abs(puja.x - toilet.x) - (puja.width + toilet.width)) < 2 * (U \div 10)
    /\ Max(0, 2 * Abs(puja.y - toilet.y) - (puja.height + toilet.height)) < 2 * (U \div 10)

computeLayoutScore(layoutRooms) ==
    LET n == Len(layoutRooms)
        p == FirstIndex({i \in 1..n : layoutRooms[i].type = "puja"})
        near == {i \in 1..n : layoutRooms[i].type = "toilet"
                                /\ PujaNearToilet(layoutRooms[p], layoutRooms[i])}
        f == FirstIndex({i \in 1..n :
                 calculateRoomVastuScore(layoutRooms[i].type, layoutRooms[i].zone).violation
                     = "forbidden"})
    IN  IF p # 0 /\ near # {}
        THEN [score |-> NegInfinity,
              hardViolation |-> Some([roomId |-> layoutRooms[p].id,
                                      reason |-> "Puja room near Toilet (Forbidden)"])]
        ELSE IF f # 0
        THEN [score |-> NegInfinity,
              hardViolation |-> Some([roomId |-> layoutRooms[f].id, reason |-> "Forbidden in zone"])]
        ELSE [score |-> RoundDiv(SumScores(layoutRooms), Max(1, Len(layoutRooms))),
              hardViolation |-> None]

(***************************************************************************)
(* utils/autoLayout.ts: greedyPlaceRooms                                   *)
(***************************************************************************)
\* A request is [id, type, targetArea (whole square metres), priority], the
\* priority a sequence: <<>> when the field is absent, <<p>> when given.
DefaultPriority == 5

\* a.priority || 5
PriorityOf(a) == IF a.priority = <<>> THEN DefaultPriority
                 ELSE IF a.priority[1] = 0 THEN DefaultPriority ELSE a.priority[1]

\* The comparator of the sort: priority difference, or else area difference.
CompareReqs(a, b) ==
    IF PriorityOf(a) - PriorityOf(b) # 0 THEN PriorityOf(a) - PriorityOf(b)
    ELSE b.targetArea - a.targetArea

\* Insert x behind every element that does not compare greater (stable).
RECURSIVE InsertReq(_, _)
InsertReq(s, x) ==
    IF s = <<>> THEN <<x>>
    ELSE IF CompareReqs(Head(s), x) <= 0 THEN <<Head(s)>> \o InsertReq(Tail(s), x)
    ELSE <<x>> \o s

\* [...rooms].sort(comparator): Array.prototype.sort is stable.
RECURSIVE SortReqs(_)
SortReqs(s) == IF s = <<>> THEN <<>> ELSE InsertReq(SortReqs(SubSeq(s, 1, Len(s) - 1)), s[Len(s)])

\* The zone ids of neither list, in grid order.
OtherZones(rr) ==
    LET Rest(id) == ~Includes(rr.preferred, id) /\ ~Includes(rr.allowed, id)
    IN  SelectSeq(ZoneIds, Rest)

NoRule == [preferred |-> <<>>, allowed |-> <<>>, forbidden |-> <<>>]

\* rules.room_rules[req.type] || {}
RuleFor(type) == IF type \in DOMAIN VastuRoomRules THEN VastuRoomRules[type] ELSE NoRule

\* A try order that puts the allowed zones before the preferred ones.
TryZonesAllowedFirst(type) ==
    LET rr == RuleFor(type) IN rr.allowed \o rr.preferred \o OtherZones(rr)

TryZones(type) ==
    LET rr == RuleFor(type) IN rr.preferred \o rr.allowed \o OtherZones(rr)

\* sqrt(targetArea * 1.4) and sqrt(targetArea / 1.4), in units.
DesiredW(req) == ISqrt(req.targetArea * 14 * ((U * U) \div 10))
DesiredH(req) == ISqrt((req.targetArea * 10 * U * U) \div 14)

RemoveAt(s, i) == SubSeq(s, 1, i - 1) \o SubSeq(s, i + 1, Len(s))

\* 0.01 m: a strip of the split is kept when both sides exceed it.
Sliver == U \div 100

DynTemplateId(id) == "dyn_" \o id

NewRoom(req, x, y, w, h, zid) ==
    [id |-> req.id, templateId |-> DynTemplateId(req.id), type |-> req.type,
     x |-> x, y |-> y, width |-> w, height |-> h,
     zone |-> zid, score |-> 0, violation |-> Null]

\* The free rectangle of zone zid the request fits, or 0.
FitIndex(freeRects, req, zid) ==
    FirstIndex({i \in 1..Len(freeRects) :
        /\ freeRects[i].zoneId = zid
        /\ freeRects[i].w >= DesiredW(req)
        /\ freeRects[i].h >= DesiredH(req)})

\* A split whose bottom strip starts at the top of the rectangle (it forgets
\* the room's height): the packing property does not survive it.
SplitUnderRoom(freeRects, frIndex, w, h) ==
    LET fr     == freeRects[frIndex]
        right  == [zoneId |-> fr.zoneId, x |-> fr.x + w, y |-> fr.y, w |-> fr.w - w, h |-> h]
        bottom == [zoneId |-> fr.zoneId, x |-> fr.x, y |-> fr.y, w |-> fr.w, h |-> fr.h - h]
    IN  RemoveAt(freeRects, frIndex) \o <<right, bottom>>

\* The guillotine split of free rectangle fr around a w x h room at its origin.
Split(freeRects, frIndex, w, h) ==
    LET fr     == freeRects[frIndex]
        right  == [zoneId |-> fr.zoneId, x |-> fr.x + w, y |-> fr.y, w |-> fr.w - w, h |-> h]
        bottom == [zoneId |-> fr.zoneId, x |-> fr.x, y |-> fr.y + h, w |-> fr.w, h |-> fr.h - h]
        Keep(r) == r.w > Sliver /\ r.h > Sliver
    IN  RemoveAt(freeRects, frIndex)
          \o (IF Keep(right) THEN <<right>> ELSE <<>>)
          \o (IF Keep(bottom) THEN <<bottom>> ELSE <<>>)

\* Lines 127-163: the first zone of the try order with a fitting rectangle.
PlaceInZone(freeRects, req) ==
    LET tz == TryZones(req.type)
        k == FirstIndex({i \in 1..Len(tz) : FitIndex(freeRects, req, tz[i]) # 0})
    IN  IF k = 0 THEN [how |-> "none"]
        ELSE LET zid == tz[k]
                 frIndex == FitIndex(freeRects, req, zid)
                 fr == freeRects[frIndex]
                 w == Min(DesiredW(req), fr.w)
                 h == Min(DesiredH(req), fr.h)
             IN  [how |-> "zone", room |-> NewRoom(req, fr.x, fr.y, w, h, zid),
                  freeRects |-> Split(freeRects, frIndex, w, h)]

\* fr.w * fr.h >= 0.5 * targetArea
BigEnough(fr, req) == 2 * fr.w * fr.h >= req.targetArea * U * U

\* A fallback that looks for the largest free rectangle instead of the first
\* one of at least half the area.
PlaceFallbackLargest(freeRects, req) ==
    LET fallbackIndex ==
            FirstIndex({i \in 1..Len(freeRects) :
                /\ BigEnough(freeRects[i], req)
                /\ \A k \in 1..Len(freeRects) :
                      freeRects[k].w * freeRects[k].h <= freeRects[i].w * freeRects[i].h})
    IN  IF fallbackIndex = 0 THEN [how |-> "none"]
        ELSE LET fr == freeRects[fallbackIndex]
                 area == Min(fr.w * fr.h, req.targetArea * U * U)
                 w == Min(fr.w, Max(U, ISqrt((area * 14) \div 10)))
                 h == Min(fr.h, Max(U, ISqrt((area * 10) \div 14)))
             IN  [how |-> "fallback", room |-> NewRoom(req, fr.x, fr.y, w, h, fr.zoneId),
                  freeRects |-> RemoveAt(freeRects, fallbackIndex)]

\* Lines 166-192: shrink into the first free rectangle of at least half the area.
PlaceFallback(freeRects, req) ==
    LET fallbackIndex == FirstIndex({i \in 1..Len(freeRects) : BigEnough(freeRects[i], req)})
    IN  IF fallbackIndex = 0 THEN [how |-> "none"]
        ELSE LET fr == freeRects[fallbackIndex]
                 area == Min(fr.w * fr.h, req.targetArea * U * U)
                 w == Min(fr.w, Max(U, ISqrt((area * 14) \div 10)))
                 h == Min(fr.h, Max(U, ISqrt((area * 10) \div 14)))
             IN  [how |-> "fallback", room |-> NewRoom(req, fr.x, fr.y, w, h, fr.zoneId),
                  freeRects |-> RemoveAt(freeRects, fallbackIndex)]

\* Lines 195-215: the last resort, centred in zone C.
PlaceCentre(freeRects, zones, req) ==
    LET cZone == ZoneById(zones, "C")
        w == Min(DesiredW(req), cZone.w - (U \div 10))
        h == Min(DesiredH(req), cZone.h - (U \div 10))
    IN  [how |-> "forced",
         room |-> NewRoom(req, cZone.x + ((cZone.w - w) \div 2), cZone.y + ((cZone.h - h) \div 2),
                          w, h, "C"),
         freeRects |-> freeRects]

\* One turn of the loop over the sorted requests (lines 107-218).
PlaceRequest(freeRects, zones, req) ==
    LET a == PlaceInZone(freeRects, req)
        b == PlaceFallback(freeRects, req)
    IN  IF a.how # "none" THEN a
        ELSE IF b.how # "none" THEN b
        ELSE PlaceCentre(freeRects, zones, req)

\* zones.map(z => ({zoneId: z.id, ...})): the initial pool of free rectangles.
InitialFreeRects(zones) ==
    [i \in 1..Len(zones) |->
        [zoneId |-> zones[i].id, x |-> zones[i].x, y |-> zones[i].y, w |-> zones[i].w, h |-> zones[i].h]]


\* greedyPlaceRooms as a whole: the loop over the sorted requests.
RECURSIVE PlaceAll(_, _, _, _)
PlaceAll(freeRects, zones, sorted, placed) ==
    IF sorted = <<>> THEN placed
    ELSE LET p == PlaceRequest(freeRects, zones, Head(sorted))
         IN  PlaceAll(p.freeRects, zones, Tail(sorted), Append(placed, p.room))

greedyPlaceRooms(plot, rooms) ==
    LET zones == computeZones(plot)
    IN  [rooms |-> PlaceAll(InitialFreeRects(zones), zones, SortReqs(rooms), <<>>),
         zones |-> zones]

(***************************************************************************)
(* utils/autoLayout.ts: localImprove.  Rooms are objects: heap is the      *)
(* sequence of all room objects allocated so far and a room array is a     *)
(* sequence of references (indices) into it, so that a write through one   *)
(* array is seen through every array holding the same object.              *)
(***************************************************************************)
Deref(h, refs) == [i \in 1..Len(refs) |-> h[refs[i]]]

\* No copy at all: the same object again.
AliasRoom(h, r) == [heap |-> h, ref |-> r]

\* ({ ...r }): a fresh object with r's fields.
CopyRoom(h, r) == [heap |-> Append(h, h[r]), ref |-> Len(h) + 1]

\* rooms.map((r) => ({ ...r }))
RECURSIVE CopyAll(_, _)
CopyAll(h, refs) ==
    IF refs = <<>> THEN [heap |-> h, refs |-> <<>>]
    ELSE LET c == CopyRoom(h, Head(refs))
             rest == CopyAll(c.heap, Tail(refs))
         IN  [heap |-> rest.heap, refs |-> <<c.ref>> \o rest.refs]

\* Math.min(Math.max(lo, v), hi)
Clamp(lo, v, hi) == Min(Max(lo, v), hi)

\* (rng() - 0.5) * 0.3 * extent
NudgeDelta(v, extent) == ((Frac10(v) - 512) * 3 * extent) \div 10240

\* length * (1 + (rng() - 0.5) * 0.2)
Scaled(length, v) == (length * (4608 + Frac10(v))) \div 5120

\* Lines 247-264: swap the zones of rooms i and j (0-based draws i0, j0).
SwapZones(h, cand, zones, i0, j0) ==
    LET n == Len(cand)
        i == i0 + 1
        j == (IF j0 = i0 THEN (i0 + 1) % n ELSE j0) + 1
        A == h[cand[i]]
        B == h[cand[j]]
        zoneA == ZoneById(zones, A.zone)
        zoneB == ZoneById(zones, B.zone)
        newA == [A EXCEPT !.x = zoneB.x + ((zoneB.w - A.width) \div 2),
                          !.y = zoneB.y + ((zoneB.h - A.height) \div 2),
                          !.zone = zoneB.id]
        newB == [B EXCEPT !.x = zoneA.x + ((zoneA.w - B.width) \div 2),
                          !.y = zoneA.y + ((zoneA.h - B.height) \div 2),
                          !.zone = zoneA.id]
        h1 == Append(h, newA)
        c1 == [cand EXCEPT ![i] = Len(h1)]
        h2 == Append(h1, newB)
        c2 == [c1 EXCEPT ![j] = Len(h2)]
    IN  [heap |-> h2, refs |-> c2]

\* Lines 266-275: nudge room i inside its zone, writing to the object.
Nudge(h, cand, zones, i0, vx, vy) ==
    LET ref == cand[i0 + 1]
        r == h[ref]
        z == ZoneById(zones, r.zone)
        nx == Clamp(z.x, r.x + NudgeDelta(vx, z.w), z.x + z.w - r.width)
        ny == Clamp(z.y, r.y + NudgeDelta(vy, z.h), z.y + z.h - r.height)
    IN  [heap |-> [h EXCEPT ![ref] = [r EXCEPT !.x = nx, !.y = ny]], refs |-> cand]

\* Lines 277-290: resize room i, writing to the object.
Resize(h, cand, zones, i0, vf) ==
    LET ref == cand[i0 + 1]
        r == h[ref]
        z == ZoneById(zones, r.zone)
        newW == Max(U \div 2, Min(Scaled(r.width, vf), (9 * z.w) \div 10))
        newH == Max(U \div 2, Min(Scaled(r.height, vf), (9 * z.h) \div 10))
        nx == Clamp(z.x, r.x, z.x + z.w - newW)
        ny == Clamp(z.y, r.y, z.y + z.h - newH)
    IN  [heap |-> [h EXCEPT ![ref] = [r EXCEPT !.width = newW, !.height = newH,
                                                !.x = nx, !.y = ny]],
         refs |-> cand]

\* Lines 244-291 for the copy c of best and the generator's next results d,
\* of which the mutation consumes two or three: the candidate and the
\* generator's new state.  An empty room list makes the nudge and the resize
\* read a field of undefined: the call throws.
MutateDrawn(c, zs, d) ==
    IF FloorMul(d[1].val, 3) = 0 /\ Len(c.refs) >= 2
    THEN [threw |-> FALSE, seed |-> d[3].seed, kind |-> "swap",
          cand |-> SwapZones(c.heap, c.refs, zs, FloorMul(d[2].val, Len(c.refs)),
                             FloorMul(d[3].val, Len(c.refs)))]
    ELSE IF Len(c.refs) = 0
    THEN [threw |-> TRUE, seed |-> d[2].seed, kind |-> "throw", cand |-> c]
    ELSE IF FloorMul(d[1].val, 3) = 1
    THEN [threw |-> FALSE, seed |-> d[4].seed, kind |-> "nudge",
          cand |-> Nudge(c.heap, c.refs, zs, FloorMul(d[2].val, Len(c.refs)), d[3].val, d[4].val)]
    ELSE [threw |-> FALSE, seed |-> d[3].seed, kind |-> "resize",
          cand |-> Resize(c.heap, c.refs, zs, FloorMul(d[2].val, Len(c.refs)), d[3].val)]

Mutate(h, refs, zs, seed) == MutateDrawn(CopyAll(h, refs), zs, Draws(seed, 4))

\* Garbage collection: of the objects allocated behind the first base ones only
\* those that refs still refers to are kept (in the order of refs); the first
\* base objects stay where they are.
Compact(h, base, refs) ==
    LET Fresh(i) == refs[i] > base
        Rank(i) == Cardinality({j \in 1..i : Fresh(j)})
        fresh == SelectSeq([i \in 1..Len(refs) |-> refs[i]], LAMBDA r : r > base)
    IN  [heap |-> SubSeq(h, 1, base) \o [k \in 1..Len(fresh) |-> h[fresh[k]]],
         refs |-> [i \in 1..Len(refs) |-> IF Fresh(i) THEN base + Rank(i) ELSE refs[i]]]

\* An acceptance test that takes every candidate.
AcceptsAll(evalRes, bestNumeric) == TRUE

\* Lines 293-297: keep the candidate when it is legal and scores higher.
Accepts(evalRes, bestNumeric) == evalRes.hardViolation = None /\ evalRes.score > bestNumeric


(***************************************************************************)
(* utils/autoLayout.ts: generateLayout, one step per phase of the          *)
(* pipeline: the greedy loop turn by turn, the zone correction, the start  *)
(* of localImprove, each of its iterations, its return, and the report.    *)
(* A second call of localImprove with the first call's arguments can       *)
(* follow the first one, to compare what the two calls return.             *)
(***************************************************************************)
VARIABLES
    lpc,           \* position in the pipeline
    argPlot,       \* generateLayout's plot
    argReqs,       \* generateLayout's roomReqs
    argIters,      \* iterations
    argSeed,       \* seed
    zones,         \* the zone grid of the plot
    sorted,        \* the requests the greedy loop has still to place
    freeRects,     \* the pool of free rectangles
    heap,          \* every room object allocated so far
    initialRooms,  \* greedyPlaceRooms' placed array (references)
    hows,          \* how each room was placed: "zone", "fallback" or "forced"
    best,          \* localImprove's best (references)
    bestNumeric,   \* localImprove's bestNumeric
    rngSeed,       \* the state captured by the generator's closure
    it,            \* the loop counter of localImprove
    lastKind,      \* the mutation of the last accepted candidate
    liResult,      \* what localImprove returned
    inputSnap,     \* the input rooms' fields when localImprove was called
    initialScore,  \* the score of the placement localImprove was given
    run,           \* 1 for the first call of localImprove, 2 for the repeated one
    firstRun,      \* what the first call returned
    glResult       \* what generateLayout returned

layoutVars == <<lpc, argPlot, argReqs, argIters, argSeed, zones, sorted, freeRects,
                heap, initialRooms, hows, best, bestNumeric, rngSeed, it, lastKind,
                liResult, inputSnap, initialScore, run, firstRun, glResult>>

(***************************************************************************)
(* geometry/wallGraph.ts: the state around calls of moveWall.  Walls and   *)
(* their end points are objects: ({ ...w }) copies a wall but not the two  *)
(* Point objects it refers to.                                             *)
(***************************************************************************)
VARIABLES
    wpc,        \* "ready" for a call of moveWall, "moved" when it has returned
    pts,        \* every Point object: [x, y]
    wobjs,      \* every Wall object: [id, start, end, thickness, isExternal],
                \* start and end references into pts
    arrays,     \* every Wall[] array: a sequence of references into wobjs
    allWalls,   \* the caller's wall array (a reference into arrays)
    argWall,    \* the wall argument of the last call (a reference into wobjs)
    argOffset,  \* the offset argument of the last call
    argMode,    \* which wall object the caller passed
    mwResult,   \* what the last call returned
    preWalls,   \* the walls of allWalls, by value, before the last call
    preWall,    \* the wall argument, by value, before the last call
    moves       \* number of calls so far

wallVars == <<wpc, pts, wobjs, arrays, allWalls, argWall, argOffset, argMode, mwResult,
              preWalls, preWall, moves>>

(***************************************************************************)
(* store/useStore.ts: the state of the store.  Rooms are replaced, never   *)
(* written to, so the store holds them by value.                           *)
(***************************************************************************)
VARIABLES
    plot,              \* [width, height] in units, orientation in degrees
    activeTemplate,    \* None or Some(template)
    rooms,             \* the Room[] of the store
    editMode,          \* "template" or "creative"
    complianceReport,  \* [totalScore, roomScores, hardViolations]
    walls,             \* the Wall[] of the store
    toastMessage,      \* the message of the last toast
    pending,           \* the call of generateDynamicLayout in flight, if any
    lastEdit,          \* the last room edit and the room it produced
    ops                \* number of calls made on the store so far

storeVars == <<plot, activeTemplate, rooms, walls, editMode, complianceReport, toastMessage,
               pending, lastEdit, ops>>

(***************************************************************************)
(* A function of the core called on its own: the call and what it returned.*)
(***************************************************************************)
VARIABLE call

nonLayoutVars == <<wallVars, storeVars, call>>

nonWallVars == <<layoutVars, storeVars, call>>

nonStoreVars == <<layoutVars, wallVars, call>>

vars == <<layoutVars, wallVars, storeVars, call>>

NoCall == [fn |-> "none"]

NoEdit == [kind |-> "none", id |-> "", changed |-> FALSE, room |-> None]

\* useStore.ts lines 68-87: the store as create() leaves it.
StoreStart ==
    /\ plot = [width |-> 14 * U, height |-> 10 * U, orientation |-> 0]
    /\ activeTemplate = None
    /\ rooms = <<>>
    /\ walls = <<>>
    /\ editMode = "template"
    /\ complianceReport = [totalScore |-> 100, roomScores |-> <<>>, hardViolations |-> <<>>]
    /\ toastMessage = ""
    /\ pending = None
    /\ lastEdit = NoEdit
    /\ ops = 0
    /\ call = NoCall

NoMove == [success |-> FALSE, updatedWalls |-> 0]

NoWall == [id |-> "", start |-> [x |-> 0, y |-> 0], end |-> [x |-> 0, y |-> 0],
           thickness |-> 0, isExternal |-> FALSE]

\* No wall editing going on.
WallIdle ==
    /\ wpc = "idle"
    /\ pts = <<>>
    /\ wobjs = <<>>
    /\ arrays = <<>>
    /\ allWalls = 0
    /\ argWall = 0
    /\ argOffset = [x |-> 0, y |-> 0]
    /\ argMode = Null
    /\ mwResult = NoMove
    /\ preWalls = <<>>
    /\ preWall = NoWall
    /\ moves = 0

\* Bounds of the explored inputs.
MaxReqs == 3
MaxIter == 3
MaxSeed == 0

\* seed = 1234, the default of localImprove and generateLayout.
DefaultSeed == 1234

Seeds == (0..MaxSeed) \cup {DefaultSeed}

\* Footprints in whole metres, from one that holds a single small room up.
PlotShapes == {<<6, 6>>, <<9, 9>>, <<15, 15>>, <<12, 9>>}

Plots == {[width |-> p[1] * U, height |-> p[2] * U] : p \in PlotShapes}

\* Room categories with the default areas of the room configurator.
Catalogue ==
    {[type |-> "living_room", targetArea |-> 25], [type |-> "kitchen", targetArea |-> 12],
     [type |-> "puja", targetArea |-> 5], [type |-> "toilet", targetArea |-> 6],
     [type |-> "study", targetArea |-> 10]}

RoomIdNames == <<"r1", "r2", "r3", "r4", "r5", "r6">>

\* The request lists: the configurator numbers the priorities 1, 2, 3, ...;
\* a caller may also leave the priority out.
RequestLists ==
    UNION {{[i \in 1..n |-> [id |-> RoomIdNames[i], type |-> c[i].type,
                             targetArea |-> c[i].targetArea,
                             priority |-> IF indexed THEN <<i>> ELSE <<>>]] :
               c \in [1..n -> Catalogue], indexed \in BOOLEAN} : n \in 0..MaxReqs}

NoScore == [score |-> 0, hardViolation |-> None]

NoResult == [rooms |-> <<>>, score |-> NoScore]

NoLayout == [rooms |-> <<>>,
             compliance |-> [totalScore |-> 0, roomScores |-> <<>>, hardViolations |-> <<>>],
             zones |-> <<>>]

LayoutStart ==
    /\ argPlot \in Plots
    /\ argReqs \in RequestLists
    /\ zones = computeZones(argPlot)
    /\ freeRects = InitialFreeRects(zones)
    /\ sorted = SortReqs(argReqs)
    /\ lpc = "place"
    /\ heap = <<>>
    /\ initialRooms = <<>>
    /\ hows = <<>>
    /\ argIters = 0
    /\ argSeed = 0
    /\ best = <<>>
    /\ bestNumeric = 0
    /\ rngSeed = ToWord(0)
    /\ it = 0
    /\ lastKind = Null
    /\ liResult = NoResult
    /\ inputSnap = <<>>
    /\ initialScore = NoScore
    /\ run = 1
    /\ firstRun = NoResult
    /\ glResult = NoLayout

InitLayout == LayoutStart /\ WallIdle /\ StoreStart

improveVars == <<best, bestNumeric, rngSeed, it, lastKind, liResult>>

\* A turn of the loop without the last resort: a request that no free
\* rectangle takes is left out of the result.
PlaceNextDropping ==
    /\ lpc = "place"
    /\ sorted # <<>>
    /\ LET p == PlaceRequest(freeRects, zones, Head(sorted))
       IN  IF p.how = "forced"
           THEN UNCHANGED <<heap, initialRooms, freeRects, hows>>
           ELSE /\ heap' = Append(heap, p.room)
                /\ initialRooms' = Append(initialRooms, Len(heap) + 1)
                /\ freeRects' = p.freeRects
                /\ hows' = Append(hows, p.how)
    /\ sorted' = Tail(sorted)
    /\ UNCHANGED <<nonLayoutVars, lpc, argPlot, argReqs, argIters, argSeed, zones, improveVars,
                   inputSnap, initialScore, run, firstRun, glResult>>

\* One turn of the greedy loop: placed.push(placedRect).
PlaceNext ==
    /\ lpc = "place"
    /\ sorted # <<>>
    /\ LET p == PlaceRequest(freeRects, zones, Head(sorted))
       IN  /\ heap' = Append(heap, p.room)
           /\ initialRooms' = Append(initialRooms, Len(heap) + 1)
           /\ freeRects' = p.freeRects
           /\ hows' = Append(hows, p.how)
    /\ sorted' = Tail(sorted)
    /\ UNCHANGED <<nonLayoutVars, lpc, argPlot, argReqs, argIters, argSeed, zones, improveVars,
                   inputSnap, initialScore, run, firstRun, glResult>>

\* generateLayout lines 316-320: r.zone = pickZoneForPoint(zones, cx, cy).
ZoneOfCentre(zs, r) == pickZoneForPoint(zs, r.x + (r.width \div 2), r.y + (r.height \div 2))

SetZones ==
    /\ lpc = "place"
    /\ sorted = <<>>
    /\ heap' = [i \in 1..Len(heap) |-> [heap[i] EXCEPT !.zone = ZoneOfCentre(zones, heap[i])]]
    /\ lpc' = "placed"
    /\ UNCHANGED <<nonLayoutVars, argPlot, argReqs, argIters, argSeed, zones, sorted, freeRects,
                   initialRooms, hows, improveVars, inputSnap, initialScore, run,
                   firstRun, glResult>>

\* localImprove lines 233-241 for the given iterations and seed.
EnterImprove(iters, seed) ==
    LET c == CopyAll(heap, initialRooms)
        bestScore == computeLayoutScore(Deref(c.heap, c.refs))
    IN  /\ heap' = c.heap
        /\ best' = c.refs
        /\ rngSeed' = ToWord(seed)
        /\ it' = 0
        /\ lastKind' = Null
        /\ argIters' = iters
        /\ argSeed' = seed
        /\ inputSnap' = Deref(heap, initialRooms)
        /\ initialScore' = bestScore
        /\ IF bestScore.hardViolation # None
           THEN /\ lpc' = "improved"
                /\ liResult' = [rooms |-> c.refs, score |-> bestScore]
                /\ bestNumeric' = bestNumeric
           ELSE /\ lpc' = "improve"
                /\ liResult' = NoResult
                /\ bestNumeric' = bestScore.score

StartImprove ==
    /\ lpc = "placed"
    /\ \E iters \in 0..MaxIter, seed \in Seeds : EnterImprove(iters, seed)
    /\ UNCHANGED <<nonLayoutVars, argPlot, argReqs, zones, sorted, freeRects, initialRooms, hows,
                   run, firstRun, glResult>>

\* Lines 293-297 for the candidate mu.cand with the evaluation evalRes.
Decide(mu, evalRes, kept) ==
    IF Accepts(evalRes, bestNumeric)
    THEN /\ heap' = kept.heap
         /\ best' = kept.refs
         /\ bestNumeric' = evalRes.score
         /\ lastKind' = mu.kind
    ELSE /\ heap' = Compact(mu.cand.heap, Len(heap), best).heap
         /\ UNCHANGED <<best, bestNumeric, lastKind>>

KeptCopy(copied) == Compact(copied.heap, Len(heap), copied.refs)

IterateWith(mu) ==
    /\ rngSeed' = mu.seed
    /\ IF mu.threw
       THEN /\ lpc' = "threw"
            /\ UNCHANGED <<heap, best, bestNumeric, lastKind, it>>
       ELSE /\ lpc' = lpc
            /\ it' = it + 1
            /\ Decide(mu, computeLayoutScore(Deref(mu.cand.heap, mu.cand.refs)),
                      KeptCopy(CopyAll(mu.cand.heap, mu.cand.refs)))

\* One turn of the loop of localImprove (lines 243-298).
Iterate ==
    /\ lpc = "improve"
    /\ it < argIters
    /\ IterateWith(Mutate(heap, best, zones, rngSeed))
    /\ UNCHANGED <<nonLayoutVars, argPlot, argReqs, argIters, argSeed, zones, sorted, freeRects,
                   initialRooms, hows, liResult, inputSnap, initialScore, run,
                   firstRun, glResult>>

\* localImprove lines 300-301.
FinishImprove ==
    /\ lpc = "improve"
    /\ it = argIters
    /\ liResult' = [rooms |-> best, score |-> computeLayoutScore(Deref(heap, best))]
    /\ lpc' = "improved"
    /\ UNCHANGED <<nonLayoutVars, argPlot, argReqs, argIters, argSeed, zones, sorted, freeRects, heap,
                   initialRooms, hows, best, bestNumeric, rngSeed, it, lastKind,
                   inputSnap, initialScore, run, firstRun, glResult>>

RECURSIVE SumField(_)
SumField(scores) == IF scores = <<>> THEN 0 ELSE Head(scores).score + SumField(Tail(scores))

\* generateLayout lines 324-358: the scores written to the final rooms and the
\* compliance report.  (The walls and doors derived from the rooms are left out.)
Report ==
    /\ lpc = "improved"
    /\ LET finalRooms == liResult.rooms
           Vst(r) == calculateRoomVastuScore(heap[r].type, heap[r].zone)
           roomScores == [i \in 1..Len(finalRooms) |->
                            [id |-> heap[finalRooms[i]].id, type |-> heap[finalRooms[i]].type,
                             zone |-> heap[finalRooms[i]].zone,
                             score |-> Vst(finalRooms[i]).score,
                             violation |-> Vst(finalRooms[i]).violation]]
           IsForbidden(s) == s.violation = "forbidden"
           bad == SelectSeq(roomScores, IsForbidden)
           hardViolations == [i \in 1..Len(bad) |-> [roomId |-> bad[i].id, reason |-> "Forbidden zone"]]
           InFinal(k) == \E i \in 1..Len(finalRooms) : finalRooms[i] = k
       IN  /\ heap' = [k \in 1..Len(heap) |->
                          IF InFinal(k)
                          THEN [heap[k] EXCEPT !.score = Vst(k).score, !.violation = Vst(k).violation]
                          ELSE heap[k]]
           /\ glResult' = [rooms |-> finalRooms,
                           compliance |-> [totalScore |-> RoundDiv(SumField(roomScores),
                                                                  Max(1, Len(roomScores))),
                                           roomScores |-> roomScores,
                                           hardViolations |-> hardViolations],
                           zones |-> zones]
    /\ lpc' = "done"
    /\ UNCHANGED <<nonLayoutVars, argPlot, argReqs, argIters, argSeed, zones, sorted, freeRects,
                   initialRooms, hows, improveVars, inputSnap, initialScore, run,
                   firstRun>>

\* localImprove called again with the arguments of the call that just returned.
Rerun ==
    /\ lpc = "improved"
    /\ run = 1
    /\ run' = 2
    /\ firstRun' = [rooms |-> Deref(heap, liResult.rooms), score |-> liResult.score]
    /\ EnterImprove(argIters, argSeed)
    /\ UNCHANGED <<nonLayoutVars, argPlot, argReqs, zones, sorted, freeRects, initialRooms, hows, glResult>>

NextLayout == PlaceNext \/ SetZones \/ StartImprove \/ Iterate \/ FinishImprove \/ Report \/ Rerun

SpecLayout == InitLayout /\ [][NextLayout]_vars

\* greedyPlaceRooms on its own.
NextGreedy == PlaceNext

\* for (const req of sorted), line 107: the loop takes up the next request.
\* PlaceNext is the one step that changes sorted, and it does so in this way.
LoopTurn ==
    /\ lpc = "place"
    /\ sorted # <<>>
    /\ sorted' = Tail(sorted)

\* The loop runs in synchronous code: once entered, every turn of it is
\* taken.
SpecGreedy == InitLayout /\ [][NextGreedy]_vars /\ WF_sorted(LoopTurn)

\* A house of ten rooms on a 9 m x 9 m plot: the first k rooms of 6 m2, the
\* others of 5 m2, none with a priority.  Each of the first nine takes a
\* whole zone of 3 m x 3 m and leaves a strip under it; the tenth finds no
\* rectangle of its size.
FillIds == <<"f1", "f2", "f3", "f4", "f5", "f6", "f7", "f8", "f9", "f10">>

FillTypes ==
    {<<"study", "kitchen", "puja", "toilet", "living_room", "study", "kitchen", "puja",
       "toilet", "study">>,
     <<"living_room", "study", "study", "kitchen", "toilet", "puja", "study", "toilet",
       "kitchen", "living_room">>}

FillLists ==
    {[i \in 1..Len(FillIds) |->
        [id |-> FillIds[i], type |-> types[i], targetArea |-> IF i <= k THEN 6 ELSE 5,
         priority |-> <<>>]] : types \in FillTypes, k \in 0..(Len(FillIds) - 1)}

FillStart ==
    /\ argPlot = [width |-> 9 * U, height |-> 9 * U]
    /\ argReqs \in FillLists
    /\ zones = computeZones(argPlot)
    /\ freeRects = InitialFreeRects(zones)
    /\ sorted = SortReqs(argReqs)
    /\ lpc = "place"
    /\ heap = <<>>
    /\ initialRooms = <<>>
    /\ hows = <<>>
    /\ argIters = 0
    /\ argSeed = 0
    /\ best = <<>>
    /\ bestNumeric = 0
    /\ rngSeed = ToWord(0)
    /\ it = 0
    /\ lastKind = Null
    /\ liResult = NoResult
    /\ inputSnap = <<>>
    /\ initialScore = NoScore
    /\ run = 1
    /\ firstRun = NoResult
    /\ glResult = NoLayout

InitFill == FillStart /\ WallIdle /\ StoreStart

\* The loop of greedyPlaceRooms over the ten requests.
NextFill == PlaceNext

SpecFill == InitFill /\ [][NextFill]_vars


(***************************************************************************)
(* Properties of the layout pipeline.                                      *)
(***************************************************************************)
\* Two rectangles [x, y, width, height] intersect in a positive area.
Overlap(a, b) ==
    /\ Min(a.x + a.width, b.x + b.width) > Max(a.x, b.x)
    /\ Min(a.y + a.height, b.y + b.height) > Max(a.y, b.y)

PairwiseDisjoint(rects) ==
    \A i, j \in 1..Len(rects) : i < j => ~Overlap(rects[i], rects[j])

InsidePlot(r) ==
    /\ r.x >= 0 /\ r.y >= 0 /\ r.width > 0 /\ r.height > 0
    /\ r.x + r.width <= argPlot.width
    /\ r.y + r.height <= argPlot.height

AsRect(fr) == [x |-> fr.x, y |-> fr.y, width |-> fr.w, height |-> fr.h]

Forced == \E i \in 1..Len(hows) : hows[i] = "forced"

PlacedRooms == Deref(heap, initialRooms)

\* C1: as long as no request took the forced placement in the centre of C, the
\* rooms placed so far are pairwise non-overlapping and inside the footprint,
\* and the free rectangles are pairwise disjoint and disjoint from every room.
C1_GreedyPacking ==
    ~Forced =>
        /\ PairwiseDisjoint(PlacedRooms)
        /\ \A i \in 1..Len(PlacedRooms) : InsidePlot(PlacedRooms[i])
        /\ PairwiseDisjoint([i \in 1..Len(freeRects) |-> AsRect(freeRects[i])])
        /\ \A i \in 1..Len(freeRects), j \in 1..Len(PlacedRooms) :
               ~Overlap(AsRect(freeRects[i]), PlacedRooms[j])

\* The greedy loop has placed three rooms, by a zone fit and by the fallback,
\* none of them forced, and free strips of a split remain.
C1_Witness ==
    /\ sorted = <<>>
    /\ Len(initialRooms) = 3
    /\ ~Forced
    /\ \E i, j \in 1..Len(hows) : hows[i] = "zone" /\ hows[j] = "fallback"
    /\ Len(freeRects) > 9 - 3

\* C2: when the rooms given to localImprove are pairwise non-overlapping, the
\* rooms it returns are pairwise non-overlapping.
C2_NoOverlapCreated ==
    (lpc = "improved" /\ PairwiseDisjoint(inputSnap))
        => PairwiseDisjoint(Deref(heap, liResult.rooms))

\* C3: when the placement given to localImprove has no hard violation, the
\* best layout has none at any iteration and never scores below the initial
\* placement, and so does the returned layout with its returned score.
C3_NeverRegresses ==
    (lpc \in {"improve", "improved"} /\ initialScore.hardViolation = None) =>
        /\ computeLayoutScore(Deref(heap, best)).hardViolation = None
        /\ computeLayoutScore(Deref(heap, best)).score >= initialScore.score
        /\ bestNumeric >= initialScore.score
        /\ lpc = "improved" =>
              /\ liResult.score.hardViolation = None
              /\ liResult.score.score >= initialScore.score
              /\ liResult.score = computeLayoutScore(Deref(heap, liResult.rooms))

\* localImprove has returned a layout that scores strictly higher than the
\* legal placement it was given.
C3_Witness ==
    /\ lpc = "improved"
    /\ initialScore.hardViolation = None
    /\ argIters >= 1
    /\ liResult.score.score > initialScore.score

\* The number of rooms of the list that stand in zone zid.
RoomsInZone(rs, zid) == Cardinality({i \in 1..Len(rs) : rs[i].zone = zid})

\* Room for room the same width and height, and the same zone ids as many
\* times each.
SameShape(out, inp) ==
    /\ Len(out) = Len(inp)
    /\ \A i \in 1..Len(inp) :
          /\ out[i].id = inp[i].id
          /\ out[i].width = inp[i].width
          /\ out[i].height = inp[i].height
    /\ \A zid \in ZoneSet : RoomsInZone(out, zid) = RoomsInZone(inp, zid)

\* C29: localImprove never changes the shape of a layout: each room it
\* returns has the width and the height of the room it was given, and the
\* zone ids of the returned rooms are those of the given rooms, as many
\* times each; the best layout kept between the iterations is of that shape
\* too, and no nudge and no resize is ever accepted.
C29_ShapeKept ==
    /\ lpc \in {"improve", "improved"} =>
          /\ SameShape(Deref(heap, best), inputSnap)
          /\ lastKind \in {Null, "swap"}
    /\ lpc = "improved" => SameShape(Deref(heap, liResult.rooms), inputSnap)

\* localImprove has returned, after two iterations or more, a layout in
\* which a room stands in another zone than the one it came with.
C29_Witness ==
    /\ lpc = "improved"
    /\ argIters >= 2
    /\ SameShape(Deref(heap, liResult.rooms), inputSnap)
    /\ \E i \in 1..Len(inputSnap) : Deref(heap, liResult.rooms)[i].zone # inputSnap[i].zone

\* C4: the repeated call of localImprove returns the rooms and the score of the
\* first call, and the room objects given to a call keep all their fields.
C4_Deterministic ==
    /\ (run = 2 /\ lpc = "improved") =>
          /\ Deref(heap, liResult.rooms) = firstRun.rooms
          /\ liResult.score = firstRun.score
    /\ lpc \in {"improve", "improved", "threw", "done"} =>
          Deref(heap, initialRooms) = inputSnap

\* The repeated call has run all its iterations, accepted a swap, and returned.
C4_Witness ==
    /\ run = 2
    /\ lpc = "improved"
    /\ argIters = MaxIter
    /\ it = MaxIter
    /\ lastKind = "swap"

Geometry(r) == [id |-> r.id, type |-> r.type, x |-> r.x, y |-> r.y,
                width |-> r.width, height |-> r.height, zone |-> r.zone]

\* C5: when the placement handed to localImprove has a hard violation,
\* generateLayout returns that placement's rooms as they were and its
\* compliance report lists a hard violation naming the violating room.
C5_HardViolationReported ==
    (lpc = "done" /\ initialScore.hardViolation # None) =>
        /\ [i \in 1..Len(glResult.rooms) |-> Geometry(heap[glResult.rooms[i]])]
               = [i \in 1..Len(inputSnap) |-> Geometry(inputSnap[i])]
        /\ \E k \in 1..Len(glResult.compliance.hardViolations) :
               glResult.compliance.hardViolations[k].roomId = initialScore.hardViolation[1].roomId


(***************************************************************************)
(* geometry/wallGraph.ts: areWallsConnected, getConnectedWalls, moveWall   *)
(***************************************************************************)
\* threshold = 0.01
threshold == U \div 100

\* Math.hypot(p.x - q.x, p.y - q.y) < threshold
Near(p, q) ==
    ((p.x - q.x) * (p.x - q.x)) + ((p.y - q.y) * (p.y - q.y)) < threshold * threshold

\* A wall object by value: its end points read through the references.
WallAt(ps, ws, r) ==
    [id |-> ws[r].id, start |-> ps[ws[r].start], end |-> ps[ws[r].end],
     thickness |-> ws[r].thickness, isExternal |-> ws[r].isExternal]

areWallsConnected(wall1, wall2) ==
    \/ Near(wall1.start, wall2.start)
    \/ Near(wall1.start, wall2.end)
    \/ Near(wall1.end, wall2.start)
    \/ Near(wall1.end, wall2.end)

\* getConnectedWalls(targetWall, allWalls), as references, read in heap (ps, ws).
getConnectedWalls(ps, ws, targetWall, wallList) ==
    SelectSeq(wallList, LAMBDA r : /\ ws[r].id # ws[targetWall].id
                                /\ areWallsConnected(WallAt(ps, ws, targetWall), WallAt(ps, ws, r)))

\* A lookup that falls back to the first wall when the id is unknown.
FindWallOrFirst(ws, wallList, id) ==
    IF \E i \in 1..Len(wallList) : ws[wallList[i]].id = id
    THEN FirstIndex({i \in 1..Len(wallList) : ws[wallList[i]].id = id})
    ELSE Min(1, Len(wallList))

\* walls.find((w) => w.id === id): the index of the first such wall, or 0.
FindWall(ws, wallList, id) == FirstIndex({i \in 1..Len(wallList) : ws[wallList[i]].id = id})

\* allWalls.map((w) => ({ ...w })): new wall objects, the Points shared.
CopyWalls(ws, wallList) ==
    [wobjs |-> ws \o [i \in 1..Len(wallList) |-> ws[wallList[i]]],
     refs |-> [i \in 1..Len(wallList) |-> Len(ws) + i]]

\* p.x += offset.x; p.y += offset.y
Translate(ps, p, offset) ==
    [ps EXCEPT ![p] = [x |-> ps[p].x + offset.x, y |-> ps[p].y + offset.y]]

\* Lines 190-193.
MoveTarget(ps, t, offset) == Translate(Translate(ps, t.start, offset), t.end, offset)

\* Lines 198-235 for one connected wall: the first end point that tests near
\* an end point of wall is set to the target's end point.
UpdateConn(ps, ws, wall, targetWall, connWall, updatedWalls) ==
    LET k == FindWall(ws, updatedWalls, ws[connWall].id)
    IN  IF k = 0 THEN ps
        ELSE IF Near(ps[ws[connWall].start], ps[ws[wall].start])
        THEN [ps EXCEPT ![ws[updatedWalls[k]].start] = ps[ws[targetWall].start]]
        ELSE IF Near(ps[ws[connWall].start], ps[ws[wall].end])
        THEN [ps EXCEPT ![ws[updatedWalls[k]].start] = ps[ws[targetWall].end]]
        ELSE IF Near(ps[ws[connWall].end], ps[ws[wall].start])
        THEN [ps EXCEPT ![ws[updatedWalls[k]].end] = ps[ws[targetWall].start]]
        ELSE IF Near(ps[ws[connWall].end], ps[ws[wall].end])
        THEN [ps EXCEPT ![ws[updatedWalls[k]].end] = ps[ws[targetWall].end]]
        ELSE ps

\* The loop of lines 197-236.
RECURSIVE UpdateConnected(_, _, _, _, _, _)
UpdateConnected(ps, ws, wall, targetWall, connected, updatedWalls) ==
    IF connected = <<>> THEN ps
    ELSE UpdateConnected(UpdateConn(ps, ws, wall, targetWall, Head(connected), updatedWalls),
                         ws, wall, targetWall, Tail(connected), updatedWalls)

\* Lines 189-238, for the copies made and the target found.
MoveFound(moved, ws, arrs, wall, targetWall, wallList, updatedWalls) ==
    [pts |-> UpdateConnected(moved, ws, wall, targetWall,
                             getConnectedWalls(moved, ws, wall, arrs[wallList]), updatedWalls),
     wobjs |-> ws,
     arrays |-> Append(arrs, updatedWalls),
     result |-> [success |-> TRUE, updatedWalls |-> Len(arrs) + 1]]

\* Lines 182-187, for the copies made.
MoveCopied(ps, ws, arrs, wall, offset, wallList, copies, k) ==
    IF k = 0
    THEN [pts |-> ps, wobjs |-> ws, arrays |-> arrs,
          result |-> [success |-> FALSE, updatedWalls |-> wallList]]
    ELSE MoveFound(MoveTarget(ps, copies.wobjs[copies.refs[k]], offset), copies.wobjs, arrs,
                   wall, copies.refs[k], wallList, copies.refs)

\* moveWall(wall, offset, allWalls) in the heap (ps, ws, arrs): the heap it
\* leaves and its result.
moveWall(ps, ws, arrs, wall, offset, wallList) ==
    MoveCopied(ps, ws, arrs, wall, offset, wallList, CopyWalls(ws, arrs[wallList]),
               FindWall(CopyWalls(ws, arrs[wallList]).wobjs, CopyWalls(ws, arrs[wallList]).refs,
                        ws[wall].id))


(***************************************************************************)
(* Calls of moveWall on a plan's walls.  The caller passes either the wall *)
(* object its array holds, or a deep copy of it, or a wall whose id the    *)
(* array does not hold; it may keep the returned array as its new walls.   *)
(***************************************************************************)
MaxMoves == 2

\* createWall(id, x1, y1, x2, y2, thickness, isExternal), lengths in units.
createWall(id, x1, y1, x2, y2, thickness, isExternal) ==
    [id |-> id, start |-> [x |-> x1, y |-> y1], end |-> [x |-> x2, y |-> y2],
     thickness |-> thickness, isExternal |-> isExternal]

\* The envelope of template_2BHK_East and its first internal wall.
TemplateWalls ==
    <<createWall("w-ext-n", 0, 0, 10 * U, 0, (23 * U) \div 100, TRUE),
      createWall("w-ext-e", 10 * U, 0, 10 * U, 10 * U, (23 * U) \div 100, TRUE),
      createWall("w-ext-s", 10 * U, 10 * U, 0, 10 * U, (23 * U) \div 100, TRUE),
      createWall("w-ext-w", 0, 10 * U, 0, 0, (23 * U) \div 100, TRUE),
      createWall("w-h1", 0, (35 * U) \div 10, 10 * U, (35 * U) \div 10, (115 * U) \div 1000, FALSE)>>

\* A wall that starts 5 mm from the point (0, 0.5) and touches no other wall's
\* end point, and a second wall drawn over the north wall, end to end.
ExtraWalls ==
    {<<>>,
     <<createWall("w-near", threshold \div 2, U \div 2, 5 * U, U \div 2, (115 * U) \div 1000, FALSE)>>,
     <<createWall("w-dup", 10 * U, 0, 0, 0, (115 * U) \div 1000, FALSE)>>}

WallPlans == {TemplateWalls \o extra : extra \in ExtraWalls}

Offsets == {[x |-> 0, y |-> U \div 2], [x |-> threshold \div 2, y |-> 0],
            [x |-> U \div 2, y |-> U \div 2]}

\* The objects of a plan: wall i has the points 2i - 1 and 2i.
PlanPoints(plan) ==
    [j \in 1..(2 * Len(plan)) |-> IF j % 2 = 1 THEN plan[(j + 1) \div 2].start
                                               ELSE plan[j \div 2].end]

PlanWalls(plan) ==
    [i \in 1..Len(plan) |-> [plan[i] EXCEPT !.start = (2 * i) - 1, !.end = 2 * i]]

WallStart ==
    /\ wpc = "ready"
    /\ \E plan \in WallPlans :
          /\ pts = PlanPoints(plan)
          /\ wobjs = PlanWalls(plan)
          /\ arrays = <<[i \in 1..Len(plan) |-> i]>>
    /\ allWalls = 1
    /\ argWall = 0
    /\ argOffset = [x |-> 0, y |-> 0]
    /\ argMode = Null
    /\ mwResult = NoMove
    /\ preWalls = <<>>
    /\ preWall = NoWall
    /\ moves = 0

\* A deep copy of wall r under the given id: a new wall with Points of its own.
Detach(ps, ws, r, id) ==
    [pts |-> ps \o <<ps[ws[r].start], ps[ws[r].end]>>,
     wobjs |-> Append(ws, [ws[r] EXCEPT !.id = id, !.start = Len(ps) + 1, !.end = Len(ps) + 2]),
     ref |-> Len(ws) + 1]

\* The state a call leaves, given what moveWall computed.
Returned(r) ==
    /\ pts' = r.pts
    /\ wobjs' = r.wobjs
    /\ arrays' = r.arrays
    /\ mwResult' = r.result

\* The call moveWall(wall, offset, allWalls) in the heap (ps, ws).
Call(ps, ws, wall, mode, offset) ==
    /\ Returned(moveWall(ps, ws, arrays, wall, offset, allWalls))
    /\ argWall' = wall
    /\ argOffset' = offset
    /\ argMode' = mode
    /\ preWalls' = [i \in 1..Len(arrays[allWalls]) |-> WallAt(ps, ws, arrays[allWalls][i])]
    /\ preWall' = WallAt(ps, ws, wall)
    /\ wpc' = "moved"
    /\ moves' = moves + 1
    /\ UNCHANGED <<allWalls, nonWallVars>>

CallDetached(d, mode, offset) == Call(d.pts, d.wobjs, d.ref, mode, offset)

\* The caller passes the wall object that its array holds.
MoveStoredWall ==
    /\ wpc = "ready"
    /\ moves < MaxMoves
    /\ \E k \in 1..Len(arrays[allWalls]), offset \in Offsets :
          Call(pts, wobjs, arrays[allWalls][k], "stored", offset)

\* The caller passes a deep copy of a wall of its array.
MoveDetachedWall ==
    /\ wpc = "ready"
    /\ moves < MaxMoves
    /\ \E k \in 1..Len(arrays[allWalls]), offset \in Offsets :
          CallDetached(Detach(pts, wobjs, arrays[allWalls][k], wobjs[arrays[allWalls][k]].id),
                       "detached", offset)

\* The caller passes a wall whose id its array does not hold.
MoveMissingWall ==
    /\ wpc = "ready"
    /\ moves < MaxMoves
    /\ \E k \in 1..Len(arrays[allWalls]), offset \in Offsets :
          CallDetached(Detach(pts, wobjs, arrays[allWalls][k], "w-missing"), "missing", offset)

\* The caller keeps the returned array as its walls.
Adopt ==
    /\ wpc = "moved"
    /\ moves < MaxMoves
    /\ allWalls' = mwResult.updatedWalls
    /\ wpc' = "ready"
    /\ UNCHANGED <<pts, wobjs, arrays, argWall, argOffset, argMode, mwResult, preWalls,
                   preWall, moves, nonWallVars>>

LayoutIdle ==
    /\ lpc = "idle"
    /\ argPlot = [width |-> 0, height |-> 0]
    /\ argReqs = <<>>
    /\ zones = <<>>
    /\ freeRects = <<>>
    /\ sorted = <<>>
    /\ heap = <<>>
    /\ initialRooms = <<>>
    /\ hows = <<>>
    /\ argIters = 0
    /\ argSeed = 0
    /\ best = <<>>
    /\ bestNumeric = 0
    /\ rngSeed = ToWord(0)
    /\ it = 0
    /\ lastKind = Null
    /\ liResult = NoResult
    /\ inputSnap = <<>>
    /\ initialScore = NoScore
    /\ run = 1
    /\ firstRun = NoResult
    /\ glResult = NoLayout

\* generateLayout is called with the plot p and the requests roomReqs.
LayoutEnters(p, roomReqs) ==
    /\ lpc' = "place"
    /\ argPlot' = p
    /\ argReqs' = roomReqs
    /\ zones' = computeZones(p)
    /\ freeRects' = InitialFreeRects(computeZones(p))
    /\ sorted' = SortReqs(roomReqs)
    /\ heap' = <<>>
    /\ initialRooms' = <<>>
    /\ hows' = <<>>
    /\ argIters' = 0
    /\ argSeed' = 0
    /\ best' = <<>>
    /\ bestNumeric' = 0
    /\ rngSeed' = ToWord(0)
    /\ it' = 0
    /\ lastKind' = Null
    /\ liResult' = NoResult
    /\ inputSnap' = <<>>
    /\ initialScore' = NoScore
    /\ run' = 1
    /\ firstRun' = NoResult
    /\ glResult' = NoLayout

\* The call is over and its frame is gone.
LayoutLeaves ==
    /\ lpc' = "idle"
    /\ argPlot' = [width |-> 0, height |-> 0]
    /\ argReqs' = <<>>
    /\ zones' = <<>>
    /\ freeRects' = <<>>
    /\ sorted' = <<>>
    /\ heap' = <<>>
    /\ initialRooms' = <<>>
    /\ hows' = <<>>
    /\ argIters' = 0
    /\ argSeed' = 0
    /\ best' = <<>>
    /\ bestNumeric' = 0
    /\ rngSeed' = ToWord(0)
    /\ it' = 0
    /\ lastKind' = Null
    /\ liResult' = NoResult
    /\ inputSnap' = <<>>
    /\ initialScore' = NoScore
    /\ run' = 1
    /\ firstRun' = NoResult
    /\ glResult' = NoLayout

InitWall == WallStart /\ LayoutIdle /\ StoreStart

NextWall == MoveStoredWall \/ MoveDetachedWall \/ MoveMissingWall \/ Adopt

SpecWall == InitWall /\ [][NextWall]_vars

(***************************************************************************)
(* Properties of moveWall.                                                 *)
(***************************************************************************)
\* The walls of an array, by value, as they are now.
WallsNow(a) == [i \in 1..Len(arrays[a]) |-> WallAt(pts, wobjs, arrays[a][i])]

Ends == {"start", "end"}

EndOf(w, e) == IF e = "start" THEN w.start ELSE w.end

Shifted(p) == [x |-> p.x + argOffset.x, y |-> p.y + argOffset.y]

\* Wall v has an end point within the threshold of point p.
Touches(v, p) == Near(v.start, p) \/ Near(v.end, p)

Succeeded == wpc = "moved" /\ mwResult.success

C6_Holds(i, e) ==
    Touches(preWalls[i], EndOf(preWall, e))
        => Touches(WallsNow(mwResult.updatedWalls)[i], Shifted(EndOf(preWall, e)))

\* C6: after a successful call, every other wall that had an end point within
\* the threshold of an end point of w before the call has an end point within
\* the threshold of that end point translated by the offset, in updatedWalls.
C6_ConnectivityPreserved ==
    Succeeded =>
        \A i \in 1..Len(preWalls), e \in Ends : preWalls[i].id # preWall.id => C6_Holds(i, e)

\* C7: after a call, every wall of the allWalls argument and the wall argument
\* have the coordinates they had before the call.
C7_InputUntouched ==
    wpc = "moved" => WallsNow(allWalls) = preWalls /\ WallAt(pts, wobjs, argWall) = preWall

\* End point e of wall v matched an end point of w before the call.
Matched(v, e) == Near(EndOf(v, e), preWall.start) \/ Near(EndOf(v, e), preWall.end)

\* C8: after a successful call, every other wall keeps, in updatedWalls, its
\* thickness and flags and each end point that was not within the threshold of
\* an end point of w; so a wall that was not connected to w keeps everything.
C8_OthersUnchanged ==
    Succeeded =>
        \A i \in 1..Len(preWalls) : preWalls[i].id # preWall.id =>
            /\ WallsNow(mwResult.updatedWalls)[i].id = preWalls[i].id
            /\ WallsNow(mwResult.updatedWalls)[i].thickness = preWalls[i].thickness
            /\ WallsNow(mwResult.updatedWalls)[i].isExternal = preWalls[i].isExternal
            /\ \A e \in Ends : ~Matched(preWalls[i], e) =>
                   EndOf(WallsNow(mwResult.updatedWalls)[i], e) = EndOf(preWalls[i], e)

UnknownId == \A i \in 1..Len(preWalls) : preWalls[i].id # preWall.id

\* C9: a call with a wall whose id is not in allWalls returns success = false
\* and the input array itself, and leaves every wall as it was.
C9_UnknownIdRejected ==
    (wpc = "moved" /\ UnknownId) =>
        /\ ~mwResult.success
        /\ mwResult.updatedWalls = allWalls
        /\ WallsNow(allWalls) = preWalls
        /\ WallAt(pts, wobjs, argWall) = preWall

\* A call with an unknown id has returned, on walls that an earlier successful
\* call had moved.
C9_Witness ==
    /\ wpc = "moved"
    /\ UnknownId
    /\ argMode = "missing"
    /\ moves = 2
    /\ allWalls # 1

(***************************************************************************)
(* templates/planTemplates.ts                                              *)
(***************************************************************************)
\* A length written in the source with three decimals, n thousandths of a
\* metre, in units.
Mm(n) == (n * U) \div 1000

RoomTemplate(id, type, x, y, w, h, anchor, minW, minH, maxW, maxH) ==
    [id |-> id, type |-> type,
     rect |-> [x |-> Mm(x), y |-> Mm(y), width |-> Mm(w), height |-> Mm(h)],
     anchor |-> anchor,
     minSize |-> [width |-> Mm(minW), height |-> Mm(minH)],
     maxSize |-> [width |-> Mm(maxW), height |-> Mm(maxH)]]

template_2BHK_East ==
    [id |-> "2bhk-east",
     baseEnvelope |-> [width |-> 10 * U, height |-> 10 * U],
     walls |->
        <<createWall("w-ext-n", 0, 0, Mm(10000), 0, Mm(230), TRUE),
          createWall("w-ext-e", Mm(10000), 0, Mm(10000), Mm(10000), Mm(230), TRUE),
          createWall("w-ext-s", Mm(10000), Mm(10000), 0, Mm(10000), Mm(230), TRUE),
          createWall("w-ext-w", 0, Mm(10000), 0, 0, Mm(230), TRUE),
          createWall("w-h1", 0, Mm(3500), Mm(10000), Mm(3500), Mm(115), FALSE),
          createWall("w-h2", 0, Mm(7000), Mm(10000), Mm(7000), Mm(115), FALSE),
          createWall("w-v1", Mm(5000), 0, Mm(5000), Mm(3500), Mm(115), FALSE),
          createWall("w-v2", Mm(7500), Mm(3500), Mm(7500), Mm(7000), Mm(115), FALSE),
          createWall("w-v3", Mm(2500), Mm(7000), Mm(2500), Mm(10000), Mm(115), FALSE)>>,
     rooms |->
        <<RoomTemplate("r-master", "master_bedroom", 5115, 230, 4885, 3270, "ne",
                       3000, 2500, 6000, 4000),
          RoomTemplate("r-bed2", "bedroom", 230, 230, 4770, 3270, "nw",
                       3000, 2500, 5000, 4000),
          RoomTemplate("r-bath1", "toilet", 7615, 3615, 2385, 3385, "ne",
                       1500, 2000, 3000, 4000),
          RoomTemplate("r-puja", "puja", 5115, 3615, 2385, 3385, "center",
                       1500, 1500, 3000, 3000),
          RoomTemplate("r-living", "living_room", 230, 3615, 4885, 3385, "center",
                       3500, 3000, 6000, 5000),
          RoomTemplate("r-kitchen", "kitchen", 7615, 7115, 2385, 2885, "se",
                       2000, 2000, 4000, 4000),
          RoomTemplate("r-dining", "dining", 2615, 7115, 4885, 2885, "center",
                       3000, 2500, 6000, 4000),
          RoomTemplate("r-stair", "staircase", 230, 7115, 2270, 2885, "sw",
                       1500, 2000, 3000, 4000)>>]

\* The first of the six templates of ALL_TEMPLATES.
ALL_TEMPLATES == <<template_2BHK_East>>

\* ALL_TEMPLATES.find((t) => t.id === id): None for undefined.
getTemplateById(id) ==
    LET i == FirstIndex({k \in 1..Len(ALL_TEMPLATES) : ALL_TEMPLATES[k].id = id})
    IN  IF i = 0 THEN None ELSE Some(ALL_TEMPLATES[i])

(***************************************************************************)
(* geometry/envelope.ts                                                    *)
(***************************************************************************)
\* The bounding box of the external walls; all zeros when there is none.
extractBuiltEnvelope(wallList) ==
    LET ext  == {i \in 1..Len(wallList) : wallList[i].isExternal}
        xs   == {wallList[i].start.x : i \in ext} \cup {wallList[i].end.x : i \in ext}
        ys   == {wallList[i].start.y : i \in ext} \cup {wallList[i].end.y : i \in ext}
        minX == CHOOSE v \in xs : \A o \in xs : v <= o
        minY == CHOOSE v \in ys : \A o \in ys : v <= o
        maxX == CHOOSE v \in xs : \A o \in xs : v >= o
        maxY == CHOOSE v \in ys : \A o \in ys : v >= o
    IN  IF ext = {} THEN [x |-> 0, y |-> 0, width |-> 0, height |-> 0]
        ELSE [x |-> minX, y |-> minY, width |-> maxX - minX, height |-> maxY - minY]

\* The ratio of the widths alone.
scaleEnvelopeByWidth(baseSize, targetSize) ==
    LET scale == [num |-> targetSize.width, den |-> baseSize.width]
    IN  [scale |-> scale,
         scaledSize |-> [width |-> (baseSize.width * scale.num) \div scale.den,
                         height |-> (baseSize.height * scale.num) \div scale.den]]

\* scaleEnvelope: the smaller of the two ratios, kept as a fraction num / den.
scaleEnvelope(baseSize, targetSize) ==
    LET widthBound == targetSize.width * baseSize.height <= targetSize.height * baseSize.width
        scale == IF widthBound THEN [num |-> targetSize.width, den |-> baseSize.width]
                 ELSE [num |-> targetSize.height, den |-> baseSize.height]
    IN  [scale |-> scale,
         scaledSize |-> [width |-> (baseSize.width * scale.num) \div scale.den,
                         height |-> (baseSize.height * scale.num) \div scale.den]]

\* v * scale
Times(v, scale) == (v * scale.num) \div scale.den

(***************************************************************************)
(* utils/adaptTemplate.ts                                                  *)
(***************************************************************************)
\* The 0.9 margin of lines 25 and 167.
TargetSize(p) == [width |-> (9 * p.width) \div 10, height |-> (9 * p.height) \div 10]

\* Lines 29-32.
CentringOffset(p, scaledSize) ==
    [x |-> (p.width - scaledSize.width) \div 2, y |-> (p.height - scaledSize.height) \div 2]

\* Lines 35-46.
TransformWalls(wallList, scale, offset) ==
    [i \in 1..Len(wallList) |->
        [wallList[i] EXCEPT !.start = [x |-> Times(wallList[i].start.x, scale) + offset.x,
                                    y |-> Times(wallList[i].start.y, scale) + offset.y],
                         !.end = [x |-> Times(wallList[i].end.x, scale) + offset.x,
                                  y |-> Times(wallList[i].end.y, scale) + offset.y],
                         !.thickness = Times(wallList[i].thickness, scale)]]

\* The grid of the built envelope, left at the origin.
OffsetZonesAtOrigin(transformedWalls) ==
    LET builtEnvelope == extractBuiltEnvelope(transformedWalls)
    IN  computeZones([width |-> builtEnvelope.width, height |-> builtEnvelope.height])

\* Lines 49-61: the grid of the built envelope, moved to where the envelope is.
OffsetZones(transformedWalls) ==
    LET builtEnvelope == extractBuiltEnvelope(transformedWalls)
        grid == computeZones([width |-> builtEnvelope.width, height |-> builtEnvelope.height])
    IN  [i \in 1..Len(grid) |-> [grid[i] EXCEPT !.x = grid[i].x + builtEnvelope.x,
                                                !.y = grid[i].y + builtEnvelope.y]]

\* Lines 64-91 for one room template.
AdaptRoom(roomTemplate, scale, offset, offsetZones) ==
    LET x == Times(roomTemplate.rect.x, scale) + offset.x
        y == Times(roomTemplate.rect.y, scale) + offset.y
        w == Times(roomTemplate.rect.width, scale)
        h == Times(roomTemplate.rect.height, scale)
        zone == pickZoneForPoint(offsetZones, x + (w \div 2), y + (h \div 2))
        vst == calculateRoomVastuScore(roomTemplate.type, zone)
    IN  [id |-> roomTemplate.id, templateId |-> roomTemplate.id, type |-> roomTemplate.type,
         x |-> x, y |-> y, width |-> w, height |-> h,
         zone |-> zone, score |-> vst.score, violation |-> vst.violation]

\* adaptTemplateToPlot(template, plot).  A template room without a rect (the
\* rooms of the fallback template are Room objects) makes line 66 read a field
\* of undefined: the call throws.
adaptTemplateToPlot(template, p) ==
    LET fit == scaleEnvelope(template.baseEnvelope, TargetSize(p))
        offset == CentringOffset(p, fit.scaledSize)
        transformedWalls == TransformWalls(template.walls, fit.scale, offset)
        offsetZones == OffsetZones(transformedWalls)
        hasRect == \A i \in 1..Len(template.rooms) : "rect" \in DOMAIN template.rooms[i]
    IN  IF ~hasRect
        THEN [threw |-> TRUE, rooms |-> <<>>, walls |-> <<>>, scale |-> fit.scale,
              offset |-> offset]
        ELSE [threw |-> FALSE,
              rooms |-> [i \in 1..Len(template.rooms) |->
                           AdaptRoom(template.rooms[i], fit.scale, offset, offsetZones)],
              walls |-> transformedWalls, scale |-> fit.scale, offset |-> offset]

\* template.rooms.find((rt) => rt.id === room.templateId): its index, or 0.
\* A room without a templateId (undefined) matches no room template.
FindRoomTemplate(template, room) ==
    FirstIndex({k \in 1..Len(template.rooms) :
                  /\ "templateId" \in DOMAIN room
                  /\ template.rooms[k].id = room.templateId})

\* Lines 236-261: the new origin for the anchor.
AnchoredOrigin(room, anchor, newWidth, newHeight) ==
    [x |-> IF anchor \in {"ne", "se"} THEN room.x + room.width - newWidth
           ELSE IF anchor = "center" THEN room.x + ((room.width - newWidth) \div 2)
           ELSE room.x,
     y |-> IF anchor \in {"sw", "se"} THEN room.y + room.height - newHeight
           ELSE IF anchor = "center" THEN room.y + ((room.height - newHeight) \div 2)
           ELSE room.y]

\* The bounds of lines 203-233 with the check of the largest height left out.
ResizeWithinNoCeiling(room, roomTemplate, newWidth, newHeight) ==
    IF newWidth < roomTemplate.minSize.width
    THEN [room |-> room, valid |-> FALSE,
          reason |-> Some([text |-> "Width too small", limit |-> roomTemplate.minSize.width])]
    ELSE IF newWidth > roomTemplate.maxSize.width
    THEN [room |-> room, valid |-> FALSE,
          reason |-> Some([text |-> "Width too large", limit |-> roomTemplate.maxSize.width])]
    ELSE IF newHeight < roomTemplate.minSize.height
    THEN [room |-> room, valid |-> FALSE,
          reason |-> Some([text |-> "Height too small", limit |-> roomTemplate.minSize.height])]
    ELSE [room |-> [room EXCEPT !.x = AnchoredOrigin(room, roomTemplate.anchor, newWidth, newHeight).x,
                                !.y = AnchoredOrigin(room, roomTemplate.anchor, newWidth, newHeight).y,
                                !.width = newWidth, !.height = newHeight],
          valid |-> TRUE, reason |-> None]

\* Lines 203-272, for the room template found.  A reason is the text of the
\* template literal with the limit it prints, `Width too small (min: 3m)`;
\* a valid result has no reason.
ResizeWithin(room, roomTemplate, newWidth, newHeight) ==
    IF newWidth < roomTemplate.minSize.width
    THEN [room |-> room, valid |-> FALSE,
          reason |-> Some([text |-> "Width too small", limit |-> roomTemplate.minSize.width])]
    ELSE IF newWidth > roomTemplate.maxSize.width
    THEN [room |-> room, valid |-> FALSE,
          reason |-> Some([text |-> "Width too large", limit |-> roomTemplate.maxSize.width])]
    ELSE IF newHeight < roomTemplate.minSize.height
    THEN [room |-> room, valid |-> FALSE,
          reason |-> Some([text |-> "Height too small", limit |-> roomTemplate.minSize.height])]
    ELSE IF newHeight > roomTemplate.maxSize.height
    THEN [room |-> room, valid |-> FALSE,
          reason |-> Some([text |-> "Height too large", limit |-> roomTemplate.maxSize.height])]
    ELSE [room |-> [room EXCEPT !.x = AnchoredOrigin(room, roomTemplate.anchor, newWidth, newHeight).x,
                                !.y = AnchoredOrigin(room, roomTemplate.anchor, newWidth, newHeight).y,
                                !.width = newWidth, !.height = newHeight],
          valid |-> TRUE, reason |-> None]

\* resizeRoom(room, template, newWidth, newHeight)
resizeRoom(room, template, newWidth, newHeight) ==
    IF FindRoomTemplate(template, room) = 0
    THEN [room |-> room, valid |-> FALSE, reason |-> Some([text |-> "Room template not found"])]
    ELSE ResizeWithin(room, template.rooms[FindRoomTemplate(template, room)], newWidth, newHeight)

(***************************************************************************)
(* utils/vastuValidator.ts and utils/vastuUtils.ts                         *)
(***************************************************************************)
\* validateLayout lines 487-518: the scores of the rooms that have a room
\* template, added up.
RECURSIVE TemplateScoreSum(_, _)
TemplateScoreSum(rs, template) ==
    IF rs = <<>> THEN 0
    ELSE (IF FindRoomTemplate(template, Head(rs)) = 0 THEN 0
          ELSE calculateRoomVastuScore(Head(rs).type, Head(rs).zone).score)
         + TemplateScoreSum(Tail(rs), template)

\* validateLayout(rooms, template): the score of the report (the violations
\* and suggestions are texts for the user).
validateLayout(rs, template) ==
    [score |-> IF Len(rs) > 0 THEN RoundDiv(TemplateScoreSum(rs, template), Len(rs)) ELSE 100]

\* A validation that lets only the mode 'off' pass a forbidden room.
validateRoomVetoUnlessOff(room, vastuMode) ==
    LET vst == calculateRoomVastuScore(room.type, room.zone)
    IN  IF vastuMode = "off"
        THEN [isValid |-> TRUE, message |-> <<"Vastu validation disabled">>, score |-> 100]
        ELSE IF vst.violation = "forbidden"
        THEN [isValid |-> FALSE,
              message |-> <<room.type, " cannot be placed in ", room.zone, " zone (forbidden)">>,
              score |-> 0]
        ELSE [isValid |-> TRUE,
              message |-> IF vst.score >= 60 THEN <<"Good placement">>
                          ELSE <<"Acceptable placement">>,
              score |-> vst.score]

\* validateRoom(room, vastuMode); a message is the sequence of the parts of
\* its template literal.
validateRoom(room, vastuMode) ==
    LET vst == calculateRoomVastuScore(room.type, room.zone)
    IN  IF vastuMode = "off"
        THEN [isValid |-> TRUE, message |-> <<"Vastu validation disabled">>, score |-> 100]
        ELSE IF vst.violation = "forbidden"
        THEN IF vastuMode = "strict"
             THEN [isValid |-> FALSE,
                   message |-> <<room.type, " cannot be placed in ", room.zone,
                                 " zone (forbidden)">>,
                   score |-> 0]
             ELSE [isValid |-> TRUE,
                   message |-> <<"Warning: ", room.type, " in ", room.zone,
                                 " zone is not recommended">>,
                   score |-> vst.score]
        ELSE [isValid |-> TRUE,
              message |-> IF vst.score >= 60 THEN <<"Good placement">>
                          ELSE <<"Acceptable placement">>,
              score |-> vst.score]

\* calculateComplianceReport(rooms)
calculateComplianceReport(rs) ==
    LET roomScores == [i \in 1..Len(rs) |->
                         [id |-> rs[i].id, type |-> rs[i].type, zone |-> rs[i].zone,
                          score |-> calculateRoomVastuScore(rs[i].type, rs[i].zone).score,
                          violation |-> calculateRoomVastuScore(rs[i].type, rs[i].zone).violation]]
        bad == SelectSeq(roomScores, LAMBDA s : s.violation = "forbidden")
    IN  [totalScore |-> IF Len(rs) > 0 THEN RoundDiv(SumField(roomScores), Len(rs)) ELSE 100,
         roomScores |-> roomScores,
         hardViolations |-> [i \in 1..Len(bad) |->
                               [roomId |-> bad[i].id,
                                reason |-> bad[i].type \o " is forbidden in " \o bad[i].zone
                                           \o " zone"]]]

(***************************************************************************)
(* utils/autoLayout.ts: what generateLayout makes for the store.           *)
(***************************************************************************)
\* improveIterations = 120, the default of generateLayout.
DefaultIterations == 120

\* generateWallsFromRooms (autoLayout.ts lines 364-414): the four edges of
\* every room, external when they lie on the bounding box of all rooms.
RoomEdges(r) ==
    <<[x1 |-> r.x, y1 |-> r.y, x2 |-> r.x + r.width, y2 |-> r.y],
      [x1 |-> r.x + r.width, y1 |-> r.y, x2 |-> r.x + r.width, y2 |-> r.y + r.height],
      [x1 |-> r.x + r.width, y1 |-> r.y + r.height, x2 |-> r.x, y2 |-> r.y + r.height],
      [x1 |-> r.x, y1 |-> r.y + r.height, x2 |-> r.x, y2 |-> r.y]>>

\* Math.abs(a - b) < 0.05 for both ends
OnLine(a1, a2, b) == Abs(a1 - b) < U \div 20 /\ Abs(a2 - b) < U \div 20

EdgeWall(e, idx, box) ==
    LET isExt == \/ OnLine(e.y1, e.y2, box.minY)
                 \/ OnLine(e.x1, e.x2, box.maxX)
                 \/ OnLine(e.y1, e.y2, box.maxY)
                 \/ OnLine(e.x1, e.x2, box.minX)
    IN  createWall("dyn-wall-" \o ToString(idx), e.x1, e.y1, e.x2, e.y2,
                   IF isExt THEN Mm(230) ELSE Mm(115), isExt)

generateWallsFromRooms(rs) ==
    LET lefts   == {rs[i].x : i \in 1..Len(rs)}
        tops    == {rs[i].y : i \in 1..Len(rs)}
        rights  == {rs[i].x + rs[i].width : i \in 1..Len(rs)}
        bottoms == {rs[i].y + rs[i].height : i \in 1..Len(rs)}
        box == [minX |-> CHOOSE v \in lefts : \A o \in lefts : v <= o,
                minY |-> CHOOSE v \in tops : \A o \in tops : v <= o,
                maxX |-> CHOOSE v \in rights : \A o \in rights : v >= o,
                maxY |-> CHOOSE v \in bottoms : \A o \in bottoms : v >= o]
    IN  [k \in 1..(4 * Len(rs)) |->
            EdgeWall(RoomEdges(rs[((k - 1) \div 4) + 1])[((k - 1) % 4) + 1], k - 1, box)]

(***************************************************************************)
(* store/useStore.ts: the actions.  Each call counts towards MaxOps.       *)
(***************************************************************************)
MaxOps == 3

\* Plot sizes a user sets (the control panel takes 8 m to 50 m).
StoreSizes == {<<14, 10>>, <<20, 20>>}

StorePlots == {[width |-> size[1] * U, height |-> size[2] * U] : size \in StoreSizes}

Request(id, type, targetArea, priority) ==
    [id |-> id, type |-> type, targetArea |-> targetArea, priority |-> <<priority>>]

\* Room requests of the configurator.
StoreRequests ==
    {<<>>,
     <<Request("r1", "kitchen", 12, 1), Request("r2", "toilet", 6, 2)>>,
     <<Request("r1", "living_room", 25, 1), Request("r2", "kitchen", 12, 2),
       Request("r3", "puja", 5, 3)>>}

\* A room and the walls of a plan in the format the prompt asks for (lines
\* 147-158): an 8 m x 4 m building at the origin with two rooms.
PlanRoom(id, type, x, zone, score, violation) ==
    [id |-> id, type |-> type, x |-> x, y |-> 0, width |-> 4 * U, height |-> 4 * U,
     zone |-> zone, score |-> score, violation |-> violation]

PlanWallList ==
    <<createWall("w1", 0, 0, 8 * U, 0, Mm(230), TRUE),
      createWall("w2", 8 * U, 0, 8 * U, 4 * U, Mm(230), TRUE),
      createWall("w3", 8 * U, 4 * U, 0, 4 * U, Mm(230), TRUE),
      createWall("w4", 0, 4 * U, 0, 0, Mm(230), TRUE),
      createWall("w5", 4 * U, 0, 4 * U, 4 * U, Mm(115), FALSE)>>

\* What JSON.parse may hand over: a plan whose scores are those of the rule
\* table, a plan that reports a kitchen in NE as a perfect room, and a plan
\* whose second room has no zone (reading the field gives undefined).
AiPlans ==
    {[score |-> 40,
      rooms |-> <<PlanRoom("a1", "master_bedroom", 0, "NW", 50, Null),
                  PlanRoom("a2", "kitchen", 4 * U, "N", 30, Null)>>,
      walls |-> PlanWallList],
     [score |-> 90,
      rooms |-> <<PlanRoom("a1", "master_bedroom", 0, "N", 80, Null),
                  PlanRoom("a2", "kitchen", 4 * U, "NE", 100, Null)>>,
      walls |-> PlanWallList],
     [score |-> 85,
      rooms |-> <<PlanRoom("a1", "master_bedroom", 0, "NW", 50, Null),
                  PlanRoom("a2", "kitchen", 4 * U, "undefined", 100, Null)>>,
      walls |-> PlanWallList]}

\* Lines 174-195: the template made of the plan.
SyntheticTemplate(plan, p) ==
    [id |-> "ai-template", baseEnvelope |-> [width |-> p.width, height |-> p.height],
     walls |-> plan.walls,
     rooms |-> [i \in 1..Len(plan.rooms) |->
                  [id |-> plan.rooms[i].id, type |-> plan.rooms[i].type,
                   rect |-> [x |-> plan.rooms[i].x, y |-> plan.rooms[i].y,
                             width |-> plan.rooms[i].width, height |-> plan.rooms[i].height],
                   anchor |-> "center",
                   minSize |-> [width |-> U, height |-> U],
                   maxSize |-> [width |-> 10 * U, height |-> 10 * U]]]]

\* Lines 201-213: the compliance report taken from the plan.
PlanCompliance(plan) ==
    LET bad == SelectSeq(plan.rooms, LAMBDA r : r.violation = "forbidden")
    IN  [totalScore |-> plan.score,
         roomScores |-> [i \in 1..Len(plan.rooms) |->
                           [id |-> plan.rooms[i].id, type |-> plan.rooms[i].type,
                            zone |-> plan.rooms[i].zone, score |-> plan.rooms[i].score,
                            violation |-> plan.rooms[i].violation]],
         hardViolations |-> [i \in 1..Len(bad) |->
                               [roomId |-> bad[i].id, reason |-> "Vastu Violation"]]]

\* Lines 239-250: the template made of the fallback layout; its rooms are the
\* Room objects themselves.
FallbackTemplate(layoutRooms, layoutWalls, p) ==
    [id |-> "fallback-template", baseEnvelope |-> [width |-> p.width, height |-> p.height],
     walls |-> layoutWalls, rooms |-> layoutRooms]

\* A call is made while no other code of the store runs; what it leaves alone.
Called ==
    /\ lpc = "idle"
    /\ ops' = ops + 1
    /\ UNCHANGED nonStoreVars

\* loadTemplate(templateId)
LoadTemplateAs(templateId, found) ==
    IF found = None
    THEN /\ toastMessage' = "Template not found"
         /\ UNCHANGED <<activeTemplate, rooms, walls, complianceReport>>
    ELSE /\ activeTemplate' = found
         /\ rooms' = adaptTemplateToPlot(found[1], plot).rooms
         /\ walls' = adaptTemplateToPlot(found[1], plot).walls
         /\ complianceReport' = calculateComplianceReport(adaptTemplateToPlot(found[1], plot).rooms)
         /\ toastMessage' = "Loaded: " \o templateId

loadTemplate ==
    /\ ops < MaxOps
    /\ \E templateId \in {"2bhk-east", "no-such-template"} :
          LoadTemplateAs(templateId, getTemplateById(templateId))
    /\ lastEdit' = NoEdit
    /\ Called
    /\ UNCHANGED <<plot, editMode, pending>>

\* refitTemplate() on the plot p.  When adaptTemplateToPlot throws, set() is
\* never reached.
RefitOn(adapted) ==
    IF adapted.threw
    THEN UNCHANGED <<rooms, walls, complianceReport>>
    ELSE /\ rooms' = adapted.rooms
         /\ walls' = adapted.walls
         /\ complianceReport' = calculateComplianceReport(adapted.rooms)

refitTemplate(p) ==
    IF activeTemplate = None
    THEN UNCHANGED <<rooms, walls, complianceReport>>
    ELSE RefitOn(adaptTemplateToPlot(activeTemplate[1], p))

\* setPlotSize(width, height)
setPlotSize ==
    /\ ops < MaxOps
    /\ \E p \in StorePlots :
          /\ plot' = [plot EXCEPT !.width = p.width, !.height = p.height]
          /\ refitTemplate(p)
    /\ lastEdit' = NoEdit
    /\ Called
    /\ UNCHANGED <<activeTemplate, editMode, toastMessage, pending>>

\* The compass rotations a user sets, in degrees.
Orientations == {0, 90}

\* setOrientation(orientation): the plot takes the rotation and the template
\* is fitted again.
setOrientation ==
    /\ ops < MaxOps
    /\ \E orientation \in Orientations :
          plot' = [plot EXCEPT !.orientation = orientation]
    /\ refitTemplate(plot)
    /\ lastEdit' = NoEdit
    /\ Called
    /\ UNCHANGED <<activeTemplate, editMode, toastMessage, pending>>

\* setEditMode(mode)
setEditMode ==
    /\ ops < MaxOps
    /\ \E mode \in {"template", "creative"} : editMode' = mode
    /\ lastEdit' = NoEdit
    /\ Called
    /\ UNCHANGED <<plot, activeTemplate, rooms, walls, complianceReport, toastMessage, pending>>

\* clearAll()
clearAll ==
    /\ ops < MaxOps
    /\ rooms' = <<>>
    /\ walls' = <<>>
    /\ activeTemplate' = None
    /\ complianceReport' = calculateComplianceReport(<<>>)
    /\ lastEdit' = NoEdit
    /\ Called
    /\ UNCHANGED <<plot, editMode, toastMessage, pending>>

\* getProjectState(): the snapshot of the store.  templateId is None for
\* undefined (activeTemplate?.id of no template).  vastuMode is no variable of
\* the model: loadProject stores the mode of the snapshot as it is.
getProjectState ==
    [plot |-> plot, rooms |-> rooms, complianceScore |-> complianceReport.totalScore,
     templateId |-> IF activeTemplate = None THEN None ELSE Some(activeTemplate[1].id)]

\* The application starts again (App.tsx, auto-load on mount) and
\* loadProject(project) is called on the store as create() leaves it, with
\* the snapshot taken of the store before.  lastEdit keeps what was saved.
loadProject ==
    /\ ops < MaxOps
    /\ LET project == getProjectState
           template == IF project.templateId = None THEN None
                       ELSE getTemplateById(project.templateId[1])
       IN  /\ plot' = project.plot
           /\ rooms' = project.rooms
           /\ walls' = <<>>
           /\ activeTemplate' = template
           /\ complianceReport' = calculateComplianceReport(project.rooms)
           /\ lastEdit' = [kind |-> "loadProject", id |-> "", changed |-> FALSE, room |-> None,
                           project |-> project,
                           saved |-> [plot |-> plot, rooms |-> rooms, walls |-> walls,
                                      activeTemplate |-> activeTemplate]]
    /\ editMode' = "template"
    /\ toastMessage' = "Project loaded successfully"
    /\ pending' = None
    /\ Called

\* generateDynamicLayout(roomReqs) up to its await: the plot is read now, the
\* answer comes later.  One call is in flight at a time.
generateDynamicLayout ==
    /\ ops < MaxOps
    /\ pending = None
    /\ \E roomReqs \in StoreRequests : pending' = Some([plot |-> plot, roomReqs |-> roomReqs])
    /\ toastMessage' = "Generating AI Layout..."
    /\ lastEdit' = NoEdit
    /\ Called
    /\ UNCHANGED <<plot, activeTemplate, rooms, walls, editMode, complianceReport>>

\* Lines 160-219: the model answered with a plan that parses.
PlanArrived ==
    /\ lpc = "idle"
    /\ pending # None
    /\ \E plan \in AiPlans :
          /\ rooms' = plan.rooms
          /\ walls' = plan.walls
          /\ activeTemplate' = Some(SyntheticTemplate(plan, pending[1].plot))
          /\ complianceReport' = PlanCompliance(plan)
          /\ lastEdit' = [kind |-> "plan", id |-> "", changed |-> FALSE, room |-> None,
                          plan |-> plan]
    /\ editMode' = "creative"
    /\ toastMessage' = "AI Plan Generated!"
    /\ pending' = None
    /\ UNCHANGED <<plot, ops, nonStoreVars>>

\* Lines 220-228: the request failed and the key is the placeholder of .env.
KeyMissing ==
    /\ lpc = "idle"
    /\ pending # None
    /\ toastMessage' = "Please add your actual Gemini API key to the .env file!"
    /\ pending' = None
    /\ lastEdit' = NoEdit
    /\ UNCHANGED <<plot, activeTemplate, rooms, walls, editMode, complianceReport, ops,
                   nonStoreVars>>

\* Lines 230-234: the request failed; generateLayout(plot, roomReqs) is called
\* with the plot read at the call.  It runs to its end before anything else.
FallbackCalled ==
    /\ lpc = "idle"
    /\ pending # None
    /\ LayoutEnters(pending[1].plot, pending[1].roomReqs)
    /\ toastMessage' = "AI Failed"
    /\ lastEdit' = NoEdit
    /\ UNCHANGED <<plot, activeTemplate, rooms, walls, editMode, complianceReport, pending,
                   ops, wallVars, call>>

\* localImprove with the defaults of generateLayout.
ImproveByDefault ==
    /\ lpc = "placed"
    /\ pending # None
    /\ EnterImprove(DefaultIterations, DefaultSeed)
    /\ UNCHANGED <<nonLayoutVars, argPlot, argReqs, zones, sorted, freeRects, initialRooms, hows,
                   run, firstRun, glResult>>

\* Lines 236-252: set() with what generateLayout returned.
FallbackAdopted ==
    /\ lpc = "done"
    /\ pending # None
    /\ rooms' = Deref(heap, glResult.rooms)
    /\ walls' = generateWallsFromRooms(Deref(heap, glResult.rooms))
    /\ activeTemplate' = Some(FallbackTemplate(Deref(heap, glResult.rooms),
                                               generateWallsFromRooms(Deref(heap, glResult.rooms)),
                                               pending[1].plot))
    /\ complianceReport' = glResult.compliance
    /\ pending' = None
    /\ LayoutLeaves
    /\ UNCHANGED <<plot, editMode, toastMessage, lastEdit, ops, wallVars, call>>

\* generateLayout threw: the promise of generateDynamicLayout is rejected.
FallbackThrew ==
    /\ lpc = "threw"
    /\ pending # None
    /\ pending' = None
    /\ LayoutLeaves
    /\ UNCHANGED <<plot, activeTemplate, rooms, walls, editMode, complianceReport,
                   toastMessage, lastEdit, ops, wallVars, call>>

\* ({ ...r, ...updates })
Merge(r, updates) ==
    [f \in DOMAIN r \cup DOMAIN updates |-> IF f \in DOMAIN updates THEN updates[f] ELSE r[f]]

\* updates.x !== undefined || updates.y !== undefined || ...
TouchesRect(updates) == DOMAIN updates \cap {"x", "y", "width", "height"} # {}

\* Lines 313-318 for the merged room.
Rezoned(updated, zs) ==
    [updated EXCEPT !.zone = pickZoneForPoint(zs, updated.x + (updated.width \div 2),
                                              updated.y + (updated.height \div 2))]

\* Lines 321-323.
Rescored(updated, template) ==
    [updated EXCEPT !.score = validateLayout(<<updated>>, template).score]

\* Lines 303-326: what the map makes of the room with the id.
UpdatedRoom(r, updates, zs, template) ==
    IF TouchesRect(updates) THEN Rescored(Rezoned(Merge(r, updates), zs), template)
    ELSE Merge(r, updates)

\* The updates of a call: a move, a move along x, a new width, a new label.
Updates ==
    {[x |-> 10 * U, y |-> U], [x |-> 3 * U, y |-> U], [x |-> U], [width |-> 2 * U],
     [label |-> "ROOM"]}

RoomIndex(rs, id) == FirstIndex({i \in 1..Len(rs) : rs[i].id = id})

\* The ids a caller may pass: those of the rooms and one that no room has.
KnownIds == {rooms[i].id : i \in 1..Len(rooms)} \cup {"r-none"}

\* Lines 300-327 for the index k of the room with the id (0 when there is
\* none).  With no template, validateLayout reads a field of null and throws
\* before set() is reached.
UpdateAt(id, updates, k) ==
    IF k # 0 /\ TouchesRect(updates) /\ activeTemplate = None
    THEN /\ UNCHANGED <<rooms, complianceReport>>
         /\ lastEdit' = [kind |-> "updateRoom", id |-> id, changed |-> FALSE, room |-> None]
    ELSE /\ rooms' = [i \in 1..Len(rooms) |->
                        IF rooms[i].id # id THEN rooms[i]
                        ELSE UpdatedRoom(rooms[i], updates, computeZones(plot), activeTemplate[1])]
         /\ complianceReport' = calculateComplianceReport(rooms')
         /\ lastEdit' = [kind |-> "updateRoom", id |-> id,
                         changed |-> k # 0 /\ TouchesRect(updates),
                         room |-> IF k = 0 THEN None ELSE Some(rooms'[k])]

\* updateRoom(id, updates)
updateRoom ==
    /\ ops < MaxOps
    /\ \E id \in KnownIds, updates \in Updates :
          IF editMode = "template" /\ activeTemplate = None
          THEN /\ toastMessage' = "Load a template first"
               /\ lastEdit' = [kind |-> "updateRoom", id |-> id, changed |-> FALSE,
                               room |-> None]
               /\ UNCHANGED <<rooms, complianceReport>>
          ELSE /\ UpdateAt(id, updates, RoomIndex(rooms, id))
               /\ UNCHANGED toastMessage
    /\ Called
    /\ UNCHANGED <<plot, activeTemplate, walls, editMode, pending>>

\* The sizes an editor asks for, in metres.
ResizeTo == {<<3, 3>>, <<5, 4>>, <<1, 3>>, <<3, 5>>}

\* An editor calls resizeRoom(room, activeTemplate, newWidth, newHeight) on a
\* room of the store; the store itself is not written.
resizeRoomCall ==
    /\ ops < MaxOps
    /\ activeTemplate # None
    /\ \E k \in 1..Len(rooms), size \in ResizeTo :
          lastEdit' = [kind |-> "resizeRoom", id |-> rooms[k].id,
                       changed |-> resizeRoom(rooms[k], activeTemplate[1],
                                              size[1] * U, size[2] * U).valid,
                       room |-> Some(resizeRoom(rooms[k], activeTemplate[1],
                                                size[1] * U, size[2] * U).room)]
    /\ Called
    /\ UNCHANGED <<plot, activeTemplate, rooms, walls, editMode, complianceReport,
                   toastMessage, pending>>

InitStore == StoreStart /\ LayoutIdle /\ WallIdle

NextStore ==
    \/ loadTemplate
    \/ setPlotSize
    \/ setOrientation
    \/ setEditMode
    \/ clearAll
    \/ loadProject
    \/ generateDynamicLayout
    \/ PlanArrived
    \/ KeyMissing
    \/ FallbackCalled
    \/ PlaceNext
    \/ SetZones
    \/ ImproveByDefault
    \/ Iterate
    \/ FinishImprove
    \/ Report
    \/ FallbackAdopted
    \/ FallbackThrew
    \/ updateRoom
    \/ resizeRoomCall

SpecStore == InitStore /\ [][NextStore]_vars

(***************************************************************************)
(* The functions of the core called on their own, with arguments of their  *)
(* domain.                                                                 *)
(***************************************************************************)
\* Footprints: plots and built envelopes, in metres (width, height).  Their
\* thirds are lengths of the grid.
FootprintSizes == {<<10, 10>>, <<14, 10>>, <<9, 12>>, <<8, 50>>, <<1, 2>>, <<20, 20>>}

Footprints == {[width |-> size[1] * U, height |-> size[2] * U] : size \in FootprintSizes}

\* Coordinates along a side of the given length: the borders of the thirds,
\* their middles, and a coordinate off either end.
Along(len) ==
    {0 - 1, 0, len \div 6, len \div 3, len \div 2, (2 * len) \div 3, (5 * len) \div 6, len,
     len + 1}

computeZonesCalled ==
    /\ \E p \in Footprints :
          call' = [fn |-> "computeZones", plot |-> p, result |-> computeZones(p)]
    /\ UNCHANGED <<layoutVars, wallVars, storeVars>>

pickZoneForPointCalled ==
    /\ \E p \in Footprints :
          \E x \in Along(p.width), y \in Along(p.height) :
              call' = [fn |-> "pickZoneForPoint", plot |-> p, x |-> x, y |-> y,
                       result |-> pickZoneForPoint(computeZones(p), x, y)]
    /\ UNCHANGED <<layoutVars, wallVars, storeVars>>

\* Rule tables that vastu_rules.json may hold: the table of the model, and a
\* table that lists a zone in more than one set of a category and leaves the
\* sets of another empty.
RuleTables ==
    {VastuRoomRules,
     [kitchen |-> [preferred |-> <<"SE", "NE">>, allowed |-> <<"NE", "E", "SE">>,
                   forbidden |-> <<"NE", "E">>],
      toilet  |-> [preferred |-> <<>>, allowed |-> <<>>, forbidden |-> <<>>]]}

calculateRoomVastuScoreCalled ==
    /\ \E roomRules \in RuleTables, zoneId \in ZoneSet,
          roomType \in {"kitchen", "toilet", "puja", "living_room", "study", "master_bedroom"} :
          call' = [fn |-> "calculateRoomVastuScore", rules |-> roomRules,
                   roomType |-> roomType, zoneId |-> zoneId,
                   result |-> ScoreUnder(roomRules, roomType, zoneId)]
    /\ UNCHANGED <<layoutVars, wallVars, storeVars>>

adaptTemplateToPlotCalled ==
    /\ \E p \in Footprints, k \in 1..Len(ALL_TEMPLATES) :
          call' = [fn |-> "adaptTemplateToPlot", template |-> ALL_TEMPLATES[k], plot |-> p,
                   result |-> adaptTemplateToPlot(ALL_TEMPLATES[k], p)]
    /\ UNCHANGED <<layoutVars, wallVars, storeVars>>

\* The rooms handed to resizeRoom: the rooms of the template on the 14 x 10
\* plot, one of them with the id of no room template, and one without a
\* templateId (a room of the auto-layout).
ResizeRooms ==
    LET adapted == adaptTemplateToPlot(template_2BHK_East, [width |-> 14 * U, height |-> 10 * U]).rooms
    IN  {adapted[i] : i \in 1..Len(adapted)}
        \cup {[adapted[1] EXCEPT !.templateId = "r-garage"]}
        \cup {[id |-> "req-1", type |-> "kitchen", x |-> 0, y |-> 0, width |-> 3 * U,
                height |-> 3 * U, zone |-> "NW", score |-> 50, violation |-> Null]}

\* The new widths and heights, in thousandths of a metre: the limits of the
\* room templates and lengths just past them.
ResizeLengths ==
    {Mm(n) : n \in {1495, 1500, 2500, 3000, 4000, 4005, 6000, 6005}}

resizeRoomCalled ==
    /\ \E room \in ResizeRooms, newWidth \in ResizeLengths, newHeight \in ResizeLengths :
          call' = [fn |-> "resizeRoom", room |-> room, template |-> template_2BHK_East,
                   newWidth |-> newWidth, newHeight |-> newHeight,
                   result |-> resizeRoom(room, template_2BHK_East, newWidth, newHeight)]
    /\ UNCHANGED <<layoutVars, wallVars, storeVars>>

\* The plots handed to greedyPlaceRooms, in metres: two plots of a house, a
\* plot without width and a plot of negative sides.
GreedyPlotSizes == {<<6, 6>>, <<9, 9>>, <<0, 6>>, <<0 - 9, 0 - 9>>}

GreedyPlots == {[width |-> size[1] * U, height |-> size[2] * U] : size \in GreedyPlotSizes}

\* A request that leaves the priority out.
Unranked(id, type, targetArea) ==
    [id |-> id, type |-> type, targetArea |-> targetArea, priority |-> <<>>]

\* The request lists handed to greedyPlaceRooms: none, one, requests of equal
\* rank and area, a priority of 0, and priorities against the input order.
GreedyRequests ==
    {<<>>,
     <<Unranked("r1", "kitchen", 12)>>,
     <<Unranked("r1", "study", 10), Unranked("r2", "study", 10), Request("r3", "puja", 5, 5)>>,
     <<Request("r1", "toilet", 6, 3), Request("r2", "living_room", 25, 0),
       Request("r3", "kitchen", 12, 3)>>,
     <<Request("r1", "puja", 5, 2), Request("r2", "living_room", 25, 1)>>}

\* greedyPlaceRooms has no throw and no early return: what it was given, it
\* answers with Some(result).
greedyPlaceRoomsCalled ==
    /\ \E p \in GreedyPlots, requests \in GreedyRequests :
          call' = [fn |-> "greedyPlaceRooms", plot |-> p, rooms |-> requests,
                   result |-> Some(greedyPlaceRooms(p, requests))]
    /\ UNCHANGED <<layoutVars, wallVars, storeVars>>

VastuModes == {"off", "soft", "strict"}

validateRoomCalled ==
    /\ \E roomType \in {"kitchen", "toilet", "puja", "study"}, zoneId \in ZoneSet,
          vastuMode \in VastuModes :
          call' = [fn |-> "validateRoom",
                   room |-> PlanRoom("r1", roomType, 0, zoneId, 0, Null),
                   vastuMode |-> vastuMode,
                   result |-> validateRoom(PlanRoom("r1", roomType, 0, zoneId, 0, Null),
                                           vastuMode)]
    /\ UNCHANGED <<layoutVars, wallVars, storeVars>>

InitCalls == StoreStart /\ LayoutIdle /\ WallIdle

NextCalls ==
    \/ computeZonesCalled
    \/ pickZoneForPointCalled
    \/ calculateRoomVastuScoreCalled
    \/ adaptTemplateToPlotCalled
    \/ resizeRoomCalled
    \/ validateRoomCalled

SpecCalls == InitCalls /\ [][NextCalls]_vars

\* A room of a layout handed to computeLayoutScore, lengths in metres.
ScoredRoom(id, type, zone, x, y, w, h) ==
    [id |-> id, templateId |-> DynTemplateId(id), type |-> type, x |-> x * U, y |-> y * U,
     width |-> w * U, height |-> h * U, zone |-> zone, score |-> 0, violation |-> Null]

\* The layouts handed to computeLayoutScore: a puja room and a toilet of
\* equal or unequal widths, apart, touching or overlapping; before them, or
\* not, a second puja room far from the toilet; after them, or not, a kitchen
\* in its forbidden zone NE or in its preferred zone SE.
ScoredLayouts ==
    {first \o <<ScoredRoom("p1", "puja", "N", 2, 0, pw, 2),
                ScoredRoom("t1", "toilet", "W", tx, ty, tw, 2)>> \o last :
        pw \in {1, 4}, tx \in {0, 3, 5, 7}, ty \in {0, 3}, tw \in {1, 4},
        first \in {<<>>, <<ScoredRoom("p0", "puja", "E", 20, 20, 1, 1)>>},
        last \in {<<>>, <<ScoredRoom("k1", "kitchen", "NE", 30, 0, 3, 3)>>,
                  <<ScoredRoom("k1", "kitchen", "SE", 30, 0, 3, 3)>>}}

computeLayoutScoreCalled ==
    /\ \E layoutRooms \in ScoredLayouts :
          call' = [fn |-> "computeLayoutScore", layoutRooms |-> layoutRooms,
                   result |-> computeLayoutScore(layoutRooms)]
    /\ UNCHANGED <<layoutVars, wallVars, storeVars>>

\* The functions of the placer and of its score, called on their own.
NextPlacer ==
    \/ greedyPlaceRoomsCalled
    \/ computeLayoutScoreCalled

SpecPlacer == InitCalls /\ [][NextPlacer]_vars

(***************************************************************************)
(* Properties of greedyPlaceRooms.                                         *)
(***************************************************************************)
\* How many elements of the sequence of ids are id.
Occurrences(ids, id) == Cardinality({i \in 1..Len(ids) : ids[i] = id})

\* No free rectangle holds the request at its desired size, and none has
\* half its area.
FitsNowhere(req) ==
    \A i \in 1..Len(freeRects) :
        /\ ~(freeRects[i].w >= DesiredW(req) /\ freeRects[i].h >= DesiredH(req))
        /\ 2 * freeRects[i].w * freeRects[i].h < req.targetArea * U * U

\* The room has the middle of zone C as its middle (to the unit of the
\* halving) and C as its zone.
CentredInC(zs, room) ==
    LET cZones == {i \in 1..Len(zs) : zs[i].id = "C"}
    IN  /\ room.zone = "C"
        /\ \E i \in cZones :
              /\ Abs(((2 * room.x) + room.width) - ((2 * zs[i].x) + zs[i].w)) <= 1
              /\ Abs(((2 * room.y) + room.height) - ((2 * zs[i].y) + zs[i].h)) <= 1

\* The loop has ended and what it returns is one room per request.
OneRoomPerRequest ==
    /\ Len(PlacedRooms) = Len(argReqs)
    /\ \A k \in 1..Len(argReqs) :
          Occurrences([i \in 1..Len(PlacedRooms) |-> PlacedRooms[i].id], argReqs[k].id)
              = Occurrences([i \in 1..Len(argReqs) |-> argReqs[i].id], argReqs[k].id)

\* A turn of the loop on a request that fits no free rectangle adds a room
\* for it, centred in zone C.
ForcedIntoCentre ==
    (lpc = "place" /\ sorted # <<>> /\ FitsNowhere(Head(sorted))) =>
        /\ Len(initialRooms') = Len(initialRooms) + 1
        /\ heap'[initialRooms'[Len(initialRooms')]].id = Head(sorted).id
        /\ CentredInC(zones, heap'[initialRooms'[Len(initialRooms')]])

\* C20: greedyPlaceRooms ends for every request list, and when it has ended
\* it returns one room per request, the ids of the rooms being the ids of the
\* requests, each once; a request that fits no free rectangle gets a room
\* centred in zone C and is not dropped.
C20_EveryRequestPlaced ==
    /\ <>(lpc = "place" /\ sorted = <<>>)
    /\ []((lpc = "place" /\ sorted = <<>>) => OneRoomPerRequest)
    /\ [][ForcedIntoCentre]_vars

\* The loop has ended on three requests, the last of which fitted no free
\* rectangle and stands in the centre of zone C.
C20_Witness ==
    /\ lpc = "place"
    /\ sorted = <<>>
    /\ Len(argReqs) = 3
    /\ OneRoomPerRequest
    /\ hows[3] = "forced"
    /\ CentredInC(zones, PlacedRooms[3])

\* Some free rectangle of zone zid is at least as large as the desired size.
HasFit(frs, req, zid) ==
    \E i \in 1..Len(frs) :
        frs[i].zoneId = zid /\ frs[i].w >= DesiredW(req) /\ frs[i].h >= DesiredH(req)

\* 1 for a zone preferred for the type, 2 for an allowed one, 3 for the rest.
ZoneRank(type, zid) ==
    IF Includes(RuleFor(type).preferred, zid) THEN 1
    ELSE IF Includes(RuleFor(type).allowed, zid) THEN 2 ELSE 3

\* The place of the zone in the grid order.
GridPlace(zid) == CHOOSE i \in 1..Len(ZoneIds) : ZoneIds[i] = zid

\* The request and the room of the turn of the loop just taken.
TurnTaken == hows' # hows

\* C27: a room is placed in a preferred zone whenever some preferred zone
\* has a free rectangle of the desired size, and in a zone neither preferred
\* nor allowed only when no preferred or allowed zone has one; among the
\* remaining zones the first in grid order with such a rectangle is taken.
C27_PreferredZonesFirst ==
    [][TurnTaken =>
        LET req == Head(sorted)
            room == heap'[Len(heap')]
            how == hows'[Len(hows')]
            fits == {zid \in ZoneSet : HasFit(freeRects, req, zid)}
        IN  /\ (\E zid \in fits : ZoneRank(req.type, zid) = 1)
                  => how = "zone" /\ ZoneRank(req.type, room.zone) = 1
            /\ ZoneRank(req.type, room.zone) = 3
                  => \A zid \in fits : ZoneRank(req.type, zid) = 3
            /\ fits # {} =>
                  /\ how = "zone"
                  /\ room.zone \in fits
                  /\ \A zid \in fits : ZoneRank(req.type, room.zone) <= ZoneRank(req.type, zid)
                  /\ ZoneRank(req.type, room.zone) = 3
                        => \A zid \in fits : GridPlace(room.zone) <= GridPlace(zid)]_vars

\* The loop has placed one room in a zone preferred for its type and, the
\* preferred and allowed zones having no rectangle of its size left, another
\* in a zone that is neither.
C27_Witness ==
    \E i, j \in 1..Len(hows) :
        /\ hows[i] = "zone"
        /\ ZoneRank(PlacedRooms[i].type, PlacedRooms[i].zone) = 1
        /\ hows[j] = "zone"
        /\ ZoneRank(PlacedRooms[j].type, PlacedRooms[j].zone) = 3
        /\ lpc = "place"

\* C28: when no zone has a free rectangle of the desired size, the room goes
\* into the largest free rectangle left, provided its area is at least half
\* the target area, and is shrunk to fit it.
C28_FallbackTakesLargest ==
    [][(TurnTaken /\ \A zid \in ZoneSet : ~HasFit(freeRects, Head(sorted), zid)) =>
        LET req == Head(sorted)
            room == heap'[Len(heap')]
            how == hows'[Len(hows')]
            Area(fr) == fr.w * fr.h
            largest == {i \in 1..Len(freeRects) :
                           \A k \in 1..Len(freeRects) : Area(freeRects[k]) <= Area(freeRects[i])}
        IN  IF \E i \in largest : BigEnough(freeRects[i], req)
            THEN /\ how = "fallback"
                 /\ \E i \in largest :
                       /\ room.x = freeRects[i].x
                       /\ room.y = freeRects[i].y
                       /\ room.zone = freeRects[i].zoneId
                       /\ room.width <= freeRects[i].w
                       /\ room.height <= freeRects[i].h
            ELSE how = "forced"]_vars

\* C28, as the code has it: when no zone has a free rectangle of the desired
\* size, the room goes into the first free rectangle of the pool whose area is
\* at least half the target area, and is shrunk to fit it; when there is
\* none, it is forced into zone C.
C28_FallbackTakesFirst ==
    [][(TurnTaken /\ \A zid \in ZoneSet : ~HasFit(freeRects, Head(sorted), zid)) =>
        LET req == Head(sorted)
            room == heap'[Len(heap')]
            how == hows'[Len(hows')]
            enough == {i \in 1..Len(freeRects) : BigEnough(freeRects[i], req)}
        IN  IF enough # {}
            THEN /\ how = "fallback"
                 /\ \E i \in enough :
                       /\ \A k \in enough : i <= k
                       /\ room.x = freeRects[i].x
                       /\ room.y = freeRects[i].y
                       /\ room.zone = freeRects[i].zoneId
                       /\ room.width <= freeRects[i].w
                       /\ room.height <= freeRects[i].h
                       /\ freeRects' = RemoveAt(freeRects, i)
            ELSE how = "forced"]_vars

\* The tenth room went into a strip by the fallback, shrunk to the height of
\* the strip, while the pool still holds a higher strip of the same width
\* and of at least half the target area.
C28_Witness ==
    /\ Len(hows) = Len(FillIds)
    /\ hows[Len(hows)] = "fallback"
    /\ LET room == PlacedRooms[Len(hows)]
           req == SortReqs(argReqs)[Len(hows)]
       IN  \E i \in 1..Len(freeRects) :
              /\ BigEnough(freeRects[i], req)
              /\ freeRects[i].h > room.height
              /\ freeRects[i].w = 3 * U

\* C21: greedyPlaceRooms given a plot of non-positive width or height, or no
\* request at all, returns no result: no rooms and no zones come back.
C21_MalformedInputRefused ==
    (/\ call.fn = "greedyPlaceRooms"
     /\ \/ call.plot.width <= 0
        \/ call.plot.height <= 0
        \/ call.rooms = <<>>)
        => call.result = None

\* The rank the request was given: its priority, or 5 when it has none.
GivenRank(req) == IF req.priority = <<>> THEN DefaultPriority ELSE req.priority[1]

\* Request i of the list is served before request j: lower rank, or else
\* larger area, or else earlier in the list.
ServedBefore(reqs, i, j) ==
    \/ GivenRank(reqs[i]) < GivenRank(reqs[j])
    \/ /\ GivenRank(reqs[i]) = GivenRank(reqs[j])
       /\ reqs[i].targetArea > reqs[j].targetArea
    \/ /\ GivenRank(reqs[i]) = GivenRank(reqs[j])
       /\ reqs[i].targetArea = reqs[j].targetArea
       /\ i < j

\* C26: greedyPlaceRooms serves the requests by ascending priority, a
\* missing priority counting as 5 and every given value, 0 too, as given,
\* then by descending target area, ties in input order: the rooms it
\* returns stand in that order.
C26_ServedByRank ==
    call.fn = "greedyPlaceRooms" =>
        LET reqs == call.rooms
            out == call.result[1].rooms
        IN  /\ Len(out) = Len(reqs)
            /\ \A i, j \in 1..Len(reqs) :
                  ServedBefore(reqs, i, j) =>
                      \E k, l \in 1..Len(out) :
                          k < l /\ out[k].id = reqs[i].id /\ out[l].id = reqs[j].id

\* The gap between the intervals [a, a + la] and [b, b + lb]; 0 when they
\* touch or overlap.
Gap(a, la, b, lb) == Max(0, Max(a, b) - Min(a + la, b + lb))

\* The rectangles of the two rooms are less than 0.1 m apart on both axes.
WithinTenth(r, t) ==
    /\ Gap(r.x, r.width, t.x, t.width) < U \div 10
    /\ Gap(r.y, r.height, t.y, t.height) < U \div 10

\* C25: computeLayoutScore returns -Infinity and a hard violation exactly
\* when a room stands in a zone forbidden to its type, or a puja room and a
\* toilet are less than 0.1 m apart on both axes; otherwise it returns the
\* rounded mean of the room scores and no violation.
C25_HardViolationExact ==
    call.fn = "computeLayoutScore" =>
        LET rs == call.layoutRooms
            forbidden == \E i \in 1..Len(rs) : Includes(RuleFor(rs[i].type).forbidden, rs[i].zone)
            adjacent == \E i, j \in 1..Len(rs) :
                           /\ rs[i].type = "puja"
                           /\ rs[j].type = "toilet"
                           /\ WithinTenth(rs[i], rs[j])
        IN  IF forbidden \/ adjacent
            THEN call.result.score = NegInfinity /\ call.result.hardViolation # None
            ELSE /\ call.result.hardViolation = None
                 /\ 2 * Abs((call.result.score * Len(rs)) - SumScores(rs)) <= Len(rs)

(***************************************************************************)
(* Properties of the zone grid.                                            *)
(***************************************************************************)
RECURSIVE AreaSum(_)
AreaSum(zs) == IF zs = <<>> THEN 0 ELSE (Head(zs).w * Head(zs).h) + AreaSum(Tail(zs))

\* The area that two zones have in common.
Common(a, b) ==
    Max(0, Min(a.x + a.w, b.x + b.w) - Max(a.x, b.x))
        * Max(0, Min(a.y + a.h, b.y + b.h) - Max(a.y, b.y))

InBounds(c) == c.x >= 0 /\ c.x <= c.plot.width /\ c.y >= 0 /\ c.y <= c.plot.height

\* C13: for a point of the footprint, borders included, pickZoneForPoint
\* returns the id of a zone of computeZones(footprint) whose rectangle holds
\* the point; the centre of a footprint gets C; for a point that no zone holds
\* the result is C.
C13_PickedZoneHoldsPoint ==
    call.fn = "pickZoneForPoint" =>
        LET zs == computeZones(call.plot)
            holding == {i \in 1..Len(zs) : InZone(zs[i], call.x, call.y)}
        IN  /\ InBounds(call) => \E i \in holding : zs[i].id = call.result
            /\ (2 * call.x = call.plot.width /\ 2 * call.y = call.plot.height)
                   => call.result = "C"
            /\ holding = {} => call.result = "C"

\* pickZoneForPoint has returned for a point on the border of two zones, and
\* the zone is not C.
C13_Witness ==
    /\ call.fn = "pickZoneForPoint"
    /\ InBounds(call)
    /\ 3 * call.x = call.plot.width
    /\ call.result # "C"

\* The order of the ids as the claim C14 has it.
C14_ClaimedOrder == <<"NE", "N", "NW", "E", "C", "W", "SE", "S", "SW">>

\* C14 as stated: computeZones returns 9 zones with the ids in the order
\* NE, N, NW, E, C, W, SE, S, SW.
C14_OrderAsClaimed ==
    call.fn = "computeZones" =>
        [i \in 1..Len(call.result) |-> call.result[i].id] = C14_ClaimedOrder

\* C14, amended: computeZones returns 9 zones, one for each id, in the
\* row-major order NW, N, NE, W, C, E, SW, S, SE, the rows from the top (y = 0)
\* and the cells of a row from the left (x = 0).
C14_RowMajorOrder ==
    call.fn = "computeZones" =>
        /\ [i \in 1..Len(call.result) |-> call.result[i].id]
               = <<"NW", "N", "NE", "W", "C", "E", "SW", "S", "SE">>
        /\ \A i \in 1..Len(call.result) :
               /\ call.result[i].x = ((i - 1) % 3) * call.result[i].w
               /\ call.result[i].y = ((i - 1) \div 3) * call.result[i].h

\* computeZones has returned the grid of the default plot of the store.
C14_Witness ==
    /\ call.fn = "computeZones"
    /\ call.plot = [width |-> 14 * U, height |-> 10 * U]
    /\ call.result[1].id = "NW"

(***************************************************************************)
(* Properties of the scorer.                                               *)
(***************************************************************************)
\* The sets of the category of the call; a category without an entry has none.
Listed(c, set) ==
    /\ c.roomType \in DOMAIN c.rules
    /\ \E i \in 1..Len(c.rules[c.roomType][set]) : c.rules[c.roomType][set][i] = c.zoneId

\* C15: calculateRoomVastuScore gives (0, 'forbidden') when the zone is among
\* the forbidden zones of the category, whatever the other sets list; else
\* 100 when it is preferred, else 60 when it is allowed, else 30, with no
\* violation; and (50, null) for a category without a rule.
C15_ScorePriority ==
    call.fn = "calculateRoomVastuScore" =>
        /\ call.roomType \notin DOMAIN call.rules
               => call.result = [score |-> 50, violation |-> Null]
        /\ call.roomType \in DOMAIN call.rules =>
               /\ call.result.score =
                      IF Listed(call, "forbidden") THEN 0
                      ELSE IF Listed(call, "preferred") THEN 100
                      ELSE IF Listed(call, "allowed") THEN 60 ELSE 30
               /\ call.result.violation = IF Listed(call, "forbidden") THEN "forbidden" ELSE Null
        /\ call.result.score \in {0, 30, 50, 60, 100}
        /\ call.result.violation = "forbidden" <=> call.result.score = 0

\* The scorer has returned for a zone that the category lists as forbidden
\* and as preferred.
C15_Witness ==
    /\ call.fn = "calculateRoomVastuScore"
    /\ Listed(call, "forbidden")
    /\ Listed(call, "preferred")
    /\ call.result = [score |-> 0, violation |-> "forbidden"]

\* C16: the total score of the report of generateLayout is the mean of the
\* room scores (to the nearest whole number) and 100 when there is no room,
\* and its hard violations name every room whose violation is 'forbidden',
\* once, and no other room.
C16_ReportIsMean ==
    lpc = "done" =>
        LET report == glResult.compliance
            n == Len(report.roomScores)
            Entries(id) == {k \in 1..Len(report.hardViolations) :
                               report.hardViolations[k].roomId = id}
        IN  /\ n = 0 => report.totalScore = 100
            /\ n > 0 => 2 * Abs((report.totalScore * n) - SumField(report.roomScores)) <= n
            /\ \A i \in 1..n :
                   Cardinality(Entries(report.roomScores[i].id)) =
                       IF report.roomScores[i].violation = "forbidden" THEN 1 ELSE 0
            /\ \A k \in 1..Len(report.hardViolations) :
                   \E i \in 1..n : report.roomScores[i].id = report.hardViolations[k].roomId

\* C22: validateRoom answers isValid = false exactly when the mode is
\* 'strict' and the rule of the room's type forbids its zone; under 'off' the
\* answer is the same for every room, and under 'soft' it is valid and
\* carries the score of calculateRoomVastuScore.
C22_ModeDecidesVeto ==
    call.fn = "validateRoom" =>
        LET forbidden == Includes(RuleFor(call.room.type).forbidden, call.room.zone)
        IN  /\ ~call.result.isValid <=> (call.vastuMode = "strict" /\ forbidden)
            /\ call.vastuMode = "off" =>
                  call.result = [isValid |-> TRUE, message |-> <<"Vastu validation disabled">>,
                                 score |-> 100]
            /\ call.vastuMode = "soft" =>
                  /\ call.result.isValid
                  /\ call.result.score
                        = calculateRoomVastuScore(call.room.type, call.room.zone).score

\* validateRoom has let a forbidden room pass under 'soft' with its score 0.
C22_Witness ==
    /\ call.fn = "validateRoom"
    /\ call.vastuMode = "soft"
    /\ Includes(RuleFor(call.room.type).forbidden, call.room.zone)
    /\ call.result.isValid
    /\ call.result.score = 0

(***************************************************************************)
(* Properties of adaptTemplateToPlot.                                      *)
(***************************************************************************)
\* a / b = c / d, for positive b and d.
SameRatio(a, b, c, d) == a * d = c * b

\* The scale is the smaller of 0.9 W / bw and 0.9 H / bh.
ScaleIsSmallerRatio(scale, p, base) ==
    /\ \/ SameRatio(scale.num, scale.den, 9 * p.width, 10 * base.width)
       \/ SameRatio(scale.num, scale.den, 9 * p.height, 10 * base.height)
    /\ (10 * scale.num) * base.width <= (9 * p.width) * scale.den
    /\ (10 * scale.num) * base.height <= (9 * p.height) * scale.den

\* C17: adaptTemplateToPlot uses one scale, the smaller of 0.9 W / bw and
\* 0.9 H / bh, and the offset that centres the scaled envelope; every room's
\* x, y, width and height and every wall end is the template's value times
\* that scale (positions moved by the offset), so no room's width to height
\* ratio leaves the template's by more than the rounding of the products; the
\* 10 x 10 template on a 20 x 20 plot gets scale 1.8 and offset (1, 1).
C17_UniformScale ==
    call.fn = "adaptTemplateToPlot" =>
        LET t == call.template
            p == call.plot
            r == call.result
            s == r.scale
        IN  /\ ScaleIsSmallerRatio(s, p, t.baseEnvelope)
            /\ r.offset.x = (p.width - Times(t.baseEnvelope.width, s)) \div 2
            /\ r.offset.y = (p.height - Times(t.baseEnvelope.height, s)) \div 2
            /\ Len(r.rooms) = Len(t.rooms)
            /\ \A i \in 1..Len(t.rooms) :
                   /\ r.rooms[i].x = Times(t.rooms[i].rect.x, s) + r.offset.x
                   /\ r.rooms[i].y = Times(t.rooms[i].rect.y, s) + r.offset.y
                   /\ r.rooms[i].width = Times(t.rooms[i].rect.width, s)
                   /\ r.rooms[i].height = Times(t.rooms[i].rect.height, s)
                   /\ Abs((r.rooms[i].width * t.rooms[i].rect.height)
                          - (r.rooms[i].height * t.rooms[i].rect.width))
                        < Max(t.rooms[i].rect.width, t.rooms[i].rect.height)
            /\ Len(r.walls) = Len(t.walls)
            /\ \A i \in 1..Len(t.walls) :
                   /\ r.walls[i].start.x = Times(t.walls[i].start.x, s) + r.offset.x
                   /\ r.walls[i].start.y = Times(t.walls[i].start.y, s) + r.offset.y
                   /\ r.walls[i].end.x = Times(t.walls[i].end.x, s) + r.offset.x
                   /\ r.walls[i].end.y = Times(t.walls[i].end.y, s) + r.offset.y
            /\ (t.baseEnvelope = [width |-> 10 * U, height |-> 10 * U]
                    /\ p = [width |-> 20 * U, height |-> 20 * U])
                  => /\ SameRatio(s.num, s.den, 18, 10)
                     /\ r.offset = [x |-> U, y |-> U]

\* The 10 x 10 template has been adapted to the 20 x 20 plot: its rooms are
\* larger than the template's and moved by the offset.
C17_Witness ==
    /\ call.fn = "adaptTemplateToPlot"
    /\ ~call.result.threw
    /\ call.template.baseEnvelope = [width |-> 10 * U, height |-> 10 * U]
    /\ call.plot = [width |-> 20 * U, height |-> 20 * U]
    /\ call.result.offset = [x |-> U, y |-> U]
    /\ call.result.rooms[1].width > call.template.rooms[1].rect.width

\* The bounding box of the external walls of a list of walls.
BoxOfExternalWalls(wallList) ==
    LET ext == {i \in 1..Len(wallList) : wallList[i].isExternal}
        xs == UNION {{wallList[i].start.x, wallList[i].end.x} : i \in ext}
        ys == UNION {{wallList[i].start.y, wallList[i].end.y} : i \in ext}
    IN  [left |-> CHOOSE v \in xs : \A o \in xs : v <= o,
         right |-> CHOOSE v \in xs : \A o \in xs : v >= o,
         top |-> CHOOSE v \in ys : \A o \in ys : v <= o,
         bottom |-> CHOOSE v \in ys : \A o \in ys : v >= o]

\* The column (0, 1, 2) of the thirds of [from, from + len] that holds v; a
\* border belongs to the third before it, and what lies outside to none (3).
ThirdOf(v, from, len) ==
    IF v < from \/ v > from + len THEN 3
    ELSE IF v <= from + (len \div 3) THEN 0
    ELSE IF v <= from + (2 * (len \div 3)) THEN 1
    ELSE 2

\* The zone of the point (x, y) in the 3 x 3 grid laid over the rectangle
\* with corner (left, top) and the given size: the zones in rows from the
\* top, NW first; C for a point outside.
GridZone(left, top, width, height, x, y) ==
    IF ThirdOf(x, left, width) = 3 \/ ThirdOf(y, top, height) = 3 THEN "C"
    ELSE <<"NW", "N", "NE", "W", "C", "E", "SW", "S", "SE">>
            [(3 * ThirdOf(y, top, height)) + ThirdOf(x, left, width) + 1]

CentreX(room) == room.x + (room.width \div 2)
CentreY(room) == room.y + (room.height \div 2)

\* C18: every room that adaptTemplateToPlot returns has the zone that holds
\* its centre in the 3 x 3 grid over the bounding box of the scaled external
\* walls, placed where that box is, and the score and violation that
\* calculateRoomVastuScore gives its type in that zone.
C18_ZoneOfBuiltEnvelope ==
    (call.fn = "adaptTemplateToPlot" /\ ~call.result.threw) =>
        LET box == BoxOfExternalWalls(call.result.walls)
        IN  \A i \in 1..Len(call.result.rooms) :
               LET room == call.result.rooms[i]
               IN  /\ room.zone = GridZone(box.left, box.top, box.right - box.left,
                                           box.bottom - box.top, CentreX(room), CentreY(room))
                   /\ room.score = calculateRoomVastuScore(room.type, room.zone).score
                   /\ room.violation = calculateRoomVastuScore(room.type, room.zone).violation

\* A template has been adapted and one of its rooms lies in a zone of the
\* built envelope that is not the zone of its centre in the grid of the plot.
C18_Witness ==
    /\ call.fn = "adaptTemplateToPlot"
    /\ ~call.result.threw
    /\ \E i \in 1..Len(call.result.rooms) :
          call.result.rooms[i].zone #
              GridZone(0, 0, call.plot.width, call.plot.height,
                       CentreX(call.result.rooms[i]), CentreY(call.result.rooms[i]))

(***************************************************************************)
(* Properties of resizeRoom.                                               *)
(***************************************************************************)
\* The room templates of the template that carry the room's templateId.
TemplatesOf(room, template) ==
    {k \in 1..Len(template.rooms) :
        "templateId" \in DOMAIN room /\ template.rooms[k].id = room.templateId}

\* The bounds of the room template that the new size breaks, each with the
\* limit it breaks.
FailedBounds(rt, newWidth, newHeight) ==
    {b \in {[text |-> "Width too small", limit |-> rt.minSize.width, broken |-> newWidth < rt.minSize.width],
            [text |-> "Width too large", limit |-> rt.maxSize.width, broken |-> newWidth > rt.maxSize.width],
            [text |-> "Height too small", limit |-> rt.minSize.height, broken |-> newHeight < rt.minSize.height],
            [text |-> "Height too large", limit |-> rt.maxSize.height, broken |-> newHeight > rt.maxSize.height]} :
        b.broken}

\* C19: resizeRoom returns valid = false, the room it was given and a reason
\* naming a bound that failed exactly when the new width or height lies
\* outside [minSize, maxSize] of the room's template, or the template has no
\* room template for the room ('Room template not found'); in every other
\* case it returns valid = true.
C19_ResizeRejectsOutOfBounds ==
    call.fn = "resizeRoom" =>
        LET found == TemplatesOf(call.room, call.template)
            r == call.result
        IN  IF found = {}
            THEN /\ ~r.valid
                 /\ r.room = call.room
                 /\ r.reason = Some([text |-> "Room template not found"])
            ELSE LET rt == call.template.rooms[CHOOSE k \in found : TRUE]
                     failed == FailedBounds(rt, call.newWidth, call.newHeight)
                 IN  /\ r.valid <=> failed = {}
                     /\ ~r.valid =>
                           /\ r.room = call.room
                           /\ \E b \in failed :
                                 r.reason = Some([text |-> b.text, limit |-> b.limit])
                     /\ r.valid => r.reason = None

\* resizeRoom has refused a height above the largest of the room template,
\* the width being within its bounds.
C19_Witness ==
    /\ call.fn = "resizeRoom"
    /\ ~call.result.valid
    /\ call.result.room = call.room
    /\ call.result.reason # None
    /\ call.result.reason[1].text = "Height too large"
    /\ call.newHeight > call.result.reason[1].limit

(***************************************************************************)
(* Properties of the room edits.                                           *)
(***************************************************************************)
\* A layout made by generateDynamicLayout rather than from a plan template.
IsDynamic == activeTemplate # None /\ activeTemplate[1].id \in {"ai-template", "fallback-template"}

\* The zone grid of the layout: that of the built envelope for a template
\* layout, that of the plot for a dynamic one.
LayoutZones ==
    IF activeTemplate = None \/ IsDynamic THEN computeZones(plot)
    ELSE OffsetZones(adaptTemplateToPlot(activeTemplate[1], plot).walls)

\* zone, score and violation of r follow from its rectangle.
DerivedFresh(r) ==
    /\ r.zone = pickZoneForPoint(LayoutZones, r.x + (r.width \div 2), r.y + (r.height \div 2))
    /\ r.score = calculateRoomVastuScore(r.type, r.zone).score
    /\ r.violation = calculateRoomVastuScore(r.type, r.zone).violation

\* C10: after an edit that changed a room's rectangle (updateRoom with x, y,
\* width or height, or a resizeRoom that succeeded) the edited room's zone is
\* the zone of its centre in the layout's grid and its score and violation are
\* those of its type in that zone.
C10_EditedRoomFresh == lastEdit.changed => DerivedFresh(lastEdit.room[1])

(***************************************************************************)
(* Properties of the plot settings.                                        *)
(***************************************************************************)
RoomRects(rs) ==
    [i \in 1..Len(rs) |-> [id |-> rs[i].id, x |-> rs[i].x, y |-> rs[i].y,
                           width |-> rs[i].width, height |-> rs[i].height]]

WallEnds(ws) == [i \in 1..Len(ws) |-> [id |-> ws[i].id, start |-> ws[i].start, end |-> ws[i].end]]

\* C23: a step that changes the orientation of the plot leaves the x, y, width
\* and height of every room and the ends of every wall as they were, and the
\* zone grid of the plot as well.
C23_OrientationKeepsCoordinates ==
    [][plot'.orientation # plot.orientation =>
          /\ RoomRects(rooms') = RoomRects(rooms)
          /\ WallEnds(walls') = WallEnds(walls)
          /\ computeZones(plot') = computeZones(plot)]_vars

\* generateDynamicLayout stores what it was answered: the plan of the model,
\* or the layout of the local generator.
Stored ==
    /\ pending # None
    /\ pending' = None
    /\ \/ lastEdit'.kind = "plan" /\ lastEdit' # lastEdit
       \/ lpc = "done" /\ lpc' = "idle"

\* C30: a layout stored by generateDynamicLayout matches the plot the store
\* holds at that moment, whatever ran while the call was pending: the plot has
\* the size the layout was asked for, and the base envelope of the stored
\* template is the size of the current plot.
C30_StoredForCurrentPlot ==
    [][Stored =>
        /\ pending[1].plot.width = plot.width
        /\ pending[1].plot.height = plot.height
        /\ activeTemplate' # None
        /\ activeTemplate'[1].baseEnvelope = [width |-> plot'.width, height |-> plot'.height]]_vars

\* C24: a store that loaded the snapshot of a saved store holds the plot,
\* the rooms, the walls and the active template of the saved store, and its
\* total score is the complianceScore of the snapshot.
C24_SaveLoadRoundTrip ==
    lastEdit.kind = "loadProject" =>
        /\ plot = lastEdit.saved.plot
        /\ rooms = lastEdit.saved.rooms
        /\ walls = lastEdit.saved.walls
        /\ activeTemplate = lastEdit.saved.activeTemplate
        /\ complianceReport.totalScore = lastEdit.project.complianceScore

(***************************************************************************)
(* Properties of the acceptance of a generated plan.                       *)
(***************************************************************************)
\* A room of the plan lacks a field.
Malformed(plan) == \E i \in 1..Len(plan.rooms) : plan.rooms[i].zone \notin ZoneSet

ScoresOf(report) == [i \in 1..Len(report.roomScores) |-> report.roomScores[i].score]

ViolatorsOf(report) == [i \in 1..Len(report.hardViolations) |-> report.hardViolations[i].roomId]

\* C11: when a plan of the generator has been accepted, the stored report has
\* the total score, the room scores and the hard violations that
\* calculateComplianceReport computes from the stored rooms, and the plan
\* stored is not a malformed one.
C11_PlanRevalidated ==
    lastEdit.kind = "plan" =>
        /\ complianceReport.totalScore = calculateComplianceReport(rooms).totalScore
        /\ ScoresOf(complianceReport) = ScoresOf(calculateComplianceReport(rooms))
        /\ ViolatorsOf(complianceReport) = ViolatorsOf(calculateComplianceReport(rooms))
        /\ ~Malformed(lastEdit.plan)

====
